---------------------------- MODULE Spec2Model ----------------------------
(***************************************************************************)
(* MeneBot: the conversation synchronisation and streaming-response       *)
(* engine.  Strings are sequences of one-character strings, so that        *)
(* concatenation, splitting, prefixes and substring search are computed   *)
(* as the JavaScript computes them.                                        *)
(*                                                                         *)
(*   SpecBackoff  : runs of withExponentialBackoff (src/index.js)          *)
(*   SpecStream   : one askAIStream iterator pulled by a consumer          *)
(*   Spec         : the App component of src/index.js                      *)
(*   SpecApp      : the App component of src/src/App.jsx, once started     *)
(*   SpecSessions : the sessions listener and the sidebar of both          *)
(*   SpecChat     : the exchanges of both components, once started        *)
(*   SpecChatLive : SpecChat with the runtime's steps taken eventually      *)
(*   SpecFaults   : one exchange of either component with rejected writes *)
(*   SpecFaultsLive : SpecFaults with the runtime's steps taken eventually  *)
(*   SpecRest     : the REST backend and the session handlers of its client *)
(*   SpecRemote   : the sessions listener with deletions by another client  *)
(*   SpecSwitch   : exchanges while the user switches between two sessions *)
(*   SpecFeed     : one session's messages with timestamps, as listed      *)
(*   SpecTitle    : the session title derived from a user text             *)
(*   SpecWindow   : one exchange in a session that already holds messages  *)
(*   SpecSelect   : one exchange while sessions are switched, created,     *)
(*                  deleted                                                *)
(***************************************************************************)
EXTENDS Integers, Sequences, FiniteSets, TLC

VARIABLES
    bk,         \* a run of withExponentialBackoff
    st,         \* an askAIStream iterator and what its consumer has pulled
    variant,    \* which App component runs: "index" (src/index.js) or "app" (src/src/App.jsx)
    sessions,   \* the store's session documents
    msgs,       \* the store's message documents, in timestamp order
    nextSid,    \* the next session document id
    nextMid,    \* the next message document id
    sessList,   \* useState sessions
    curSid,     \* useState currentSessionId (0: null)
    view,       \* useState messages
    input,      \* useState input
    isTyping,   \* useState isTyping
    error,      \* useState error / errorMessage ("": null)
    sessDirty,  \* the sessions listener has a snapshot to deliver
    msgDirty,   \* the messages listener has a snapshot to deliver
    timers,     \* pending setTimeout(createSession) callbacks, by who armed them
    creating,   \* createSession calls awaiting their write
    deleting,   \* deleteSession calls in flight
    ex,         \* the handleSend calls (exchanges), by number
    nEx,        \* how many handleSend calls were made
    faults,     \* store writes that failed so far
    emptyObs,   \* how often the sessions listener saw an empty snapshot
    ops,        \* sessions the user has created or deleted in the sidebar so far
    lim,        \* how many such sidebar actions, handleSend calls and rejected writes a run has
    backend,    \* the REST backend's database and the state of its client (part_001)
    feed,       \* the messages collection of one session with its timestamps, and its listener
    derived     \* a user text and the session title handleSend derives from it

(***************************************************************************)
(* Bounds of the model.                                                    *)
(***************************************************************************)
MaxLen == 4
MaxRetriesArg == 5
MaxExtraPulls == 1
MaxSessions == 3
SessOps == 1
IndexOps == 1
IndexSends == 1
IndexFaults == 1
AppSends == 2
ChatSends == 2
FaultSends == 1
FaultWrites == 1
RestMaxChats == 3
RestMaxMsgs == 4
RemoteOps == 2
SwitchSends == 1
FeedMaxDocs == 3
FeedMaxClock == 2
FeedMaxSkew == 1

(***************************************************************************)
(* Strings.                                                                *)
(***************************************************************************)
WsChars == {" ", "\n"}

IsWs(c) == c \in WsChars

RECURSIVE Flatten(_)
Flatten(ss) == IF ss = <<>> THEN <<>> ELSE Head(ss) \o Flatten(Tail(ss))

IsPrefix(p, s) == Len(p) <= Len(s) /\ SubSeq(s, 1, Len(p)) = p

StartsWith(s, p) == IsPrefix(p, s)

\* String.prototype.includes
Includes(s, needle) ==
    \E i \in 1..(Len(s) + 1) :
        /\ i + Len(needle) - 1 <= Len(s)
        /\ SubSeq(s, i, i + Len(needle) - 1) = needle

DigitChars == <<"0", "1", "2", "3", "4", "5", "6", "7", "8", "9">>

\* the decimal text a template literal gives a non-negative number
RECURSIVE Digits(_)
Digits(n) == IF n < 10 THEN <<DigitChars[n + 1]>>
             ELSE Digits(n \div 10) \o <<DigitChars[(n % 10) + 1]>>

\* the longest prefix of s whose characters all have IsWs(c) = ws
RECURSIVE RunLen(_, _)
RunLen(s, ws) == IF s = <<>> \/ IsWs(Head(s)) # ws THEN 0
                 ELSE 1 + RunLen(Tail(s), ws)

Drop(s, n) == SubSeq(s, n + 1, Len(s))

\* s.split(/(\s+)/): the pieces between whitespace runs (possibly empty at
\* either end) with every whitespace run kept as a piece of its own
RECURSIVE JsSplitWs(_)
JsSplitWs(s) ==
    LET h    == RunLen(s, FALSE)
        rest == Drop(s, h)
        w    == RunLen(rest, TRUE)
    IN  IF rest = <<>> THEN <<SubSeq(s, 1, h)>>
        ELSE <<SubSeq(s, 1, h), SubSeq(rest, 1, w)>> \o JsSplitWs(Drop(rest, w))

NonEmpty(c) == Len(c) > 0

\* every other piece: the pieces between the separators
RECURSIVE OddElements(_)
OddElements(ss) == IF Len(ss) <= 1 THEN ss ELSE <<ss[1]>> \o OddElements(Drop(ss, 2))

\* mutant of SplitChunks: the split does not keep the whitespace runs
SplitChunksNoSeparators(full) == SelectSeq(OddElements(JsSplitWs(full)), NonEmpty)

\* fullResponse.split(/(\s+)/).filter(c => c.length > 0)
SplitChunks(full) == SelectSeq(JsSplitWs(full), NonEmpty)

NoResponseText == <<"N", "o", " ", "r", "e", "s", "p", "o", "n", "s", "e", " ", "r", "e", "c", "e", "i", "v", "e", "d", " ", "f", "r", "o", "m", " ", "A", "I", ".">>

\* data.candidates?.[0]?.content?.parts?.[0]?.text || "No response received from AI."
\* (an absent text and an empty text are both falsy; <<>> stands for either)
FullResponse(apiText) == IF apiText = <<>> THEN NoResponseText ELSE apiText

ErrorMarker == <<"E", "R", "R", "O", "R">>

ErrorConnectPrefix == <<"E", "R", "R", "O", "R", ":", " ", "F", "a", "i", "l", "e", "d", " ", "t", "o", " ", "c", "o", "n", "n", "e", "c", "t", " ", "t", "o", " ", "A", "I", ".", " ", "D", "e", "t", "a", "i", "l", "s", ":", " ">>

FailedToFetch == <<"F", "a", "i", "l", "e", "d", " ", "t", "o", " ", "f", "e", "t", "c", "h">>

(***************************************************************************)
(* Failures of the completion fetch.                                       *)
(***************************************************************************)
HttpStatuses == {400, 404, 429, 500, 502, 503}

\* error.message texts of the service's JSON error body
ErrorDetails == { <<"b", "a", "d">>, <<"m", "a", "x", " ", "5", "0", "0">> }

\* response.statusText (empty over HTTP/2)
StatusTexts == { <<>> }

Failures ==
    [kind : {"http"}, status : HttpStatuses, statusText : StatusTexts, detail : ErrorDetails]
        \cup {[kind |-> "network", status |-> 0, statusText |-> <<>>, detail |-> <<>>]}

\* `${response.status} ${response.statusText}: ${errorDetails.error.message}`,
\* or the TypeError message of a fetch that could not connect
ErrorMessage(f) ==
    IF f.kind = "network" THEN FailedToFetch
    ELSE Digits(f.status) \o <<" ">> \o f.statusText \o <<":", " ">> \o f.detail

\* the failure classes of the design: HTTP 429, HTTP 5xx, no connection
SpecRetryable(f) ==
    \/ f.kind = "network"
    \/ f.kind = "http" /\ (f.status = 429 \/ (f.status >= 500 /\ f.status <= 599))

SpecNonRetryable(f) ==
    f.kind = "http" /\ f.status >= 400 /\ f.status <= 499 /\ f.status # 429

\* mutant of IsRetryableMessage: the 429 test is dropped
IsRetryableMessageNo429(msg) ==
    \/ Includes(msg, <<"5", "0", "0">>)
    \/ Includes(msg, FailedToFetch)

\* error.message.includes('429') || includes('500') || includes('Failed to fetch')
IsRetryableMessage(msg) ==
    \/ Includes(msg, <<"4", "2", "9">>)
    \/ Includes(msg, <<"5", "0", "0">>)
    \/ Includes(msg, FailedToFetch)

\* the catch block of withExponentialBackoff: rethrow or wait and go round again
BackoffOnError(attempt, maxRetries, f) ==
    IF attempt = maxRetries - 1 \/ ~IsRetryableMessage(ErrorMessage(f))
    THEN "throw" ELSE "delay"


(***************************************************************************)
(* withExponentialBackoff, one step per invocation of fn and per delay.    *)
(***************************************************************************)
DefaultMaxRetries == 5

OkOutcome == [kind |-> "ok", status |-> 200, statusText |-> <<>>, detail |-> <<>>]

NoOutcome == [kind |-> "none", status |-> 0, statusText |-> <<>>, detail |-> <<>>]

BackoffStart(maxRetries) ==
    [pc      |-> IF maxRetries > 0 THEN "call" ELSE "returned",
     max     |-> maxRetries,
     attempt |-> 0,
     calls   |-> 0,
     delays  |-> 0,
     last    |-> NoOutcome,
     all429  |-> TRUE,
     allSpecRetryable |-> TRUE,
     result  |-> NoOutcome]

\* try { return await fn(); } catch (error) { ... throw error; }
BackoffInvoke(b, o) ==
    LET called == [b EXCEPT !.calls = @ + 1, !.last = o]
    IN  IF o.kind = "ok"
        THEN [called EXCEPT !.pc = "returned", !.result = o]
        ELSE LET failed == [called EXCEPT
                               !.all429 = @ /\ o.kind = "http" /\ o.status = 429,
                               !.allSpecRetryable = @ /\ SpecRetryable(o)]
             IN  IF BackoffOnError(b.attempt, b.max, o) = "throw"
                 THEN [failed EXCEPT !.pc = "thrown", !.result = o]
                 ELSE [failed EXCEPT !.pc = "delay"]

\* await new Promise(resolve => setTimeout(resolve, delay)); attempt++
BackoffDelayed(b) ==
    [b EXCEPT !.pc = IF b.attempt + 1 < b.max THEN "call" ELSE "returned",
              !.delays = @ + 1,
              !.attempt = @ + 1]

(***************************************************************************)
(* askAIStream: the iterator's state and the result of one next().         *)
(***************************************************************************)
Variants == {"index", "app"}

StreamNew == [fetched |-> FALSE, full |-> <<>>, chunks |-> <<>>, idx |-> 0]

\* fullResponse = ... ; chunks = fullResponse.split(/(\s+)/).filter(...)
StreamFetched(s, apiText) ==
    [s EXCEPT !.fetched = TRUE,
              !.full    = FullResponse(apiText),
              !.chunks  = SplitChunks(FullResponse(apiText))]

\* if (chunkIndex >= chunks.length)
StreamExhausted(s) == s.idx >= Len(s.chunks)

\* return { done: true } (index.js) / { done: true, value: fullResponse } (App.jsx)
StreamDoneResult(v, s) ==
    IF v = "index" THEN [done |-> TRUE, hasValue |-> FALSE, value |-> <<>>]
    ELSE [done |-> TRUE, hasValue |-> TRUE, value |-> s.full]

\* const chunk = chunks[chunkIndex++]; return { value: chunk, done: false }
StreamChunkResult(s) == [done |-> FALSE, hasValue |-> TRUE, value |-> s.chunks[s.idx + 1]]

StreamAdvanced(s) == [s EXCEPT !.idx = @ + 1]

\* catch (error) { return { value: `ERROR: ... ${error.message}`, done: true } }
StreamErrorResult(f) ==
    [done |-> TRUE, hasValue |-> TRUE, value |-> ErrorConnectPrefix \o ErrorMessage(f)]

NoResult == [done |-> FALSE, hasValue |-> FALSE, value |-> <<>>]


(***************************************************************************)
(* The App component: texts the user types and the service answers.       *)
(***************************************************************************)
Inputs == { <<>>, <<" ">>, <<"h", "i">> }

ApiReplies == { <<"a", " ">>, <<"b">> }

Http500 == [kind |-> "http", status |-> 500, statusText |-> <<>>, detail |-> <<"b", "a", "d">>]

\* what the completion service answers to the successive requests of one
\* exchange: 500 every time, or a reply at once
FetchScripts ==
    { [fails |-> [i \in 1..DefaultMaxRetries |-> Http500], reply |-> <<>>] }
        \cup { [fails |-> <<>>, reply |-> r] : r \in ApiReplies }

\* withExponentialBackoff(fetchContent) run against a script of outcomes
RECURSIVE BackoffRun(_, _)
BackoffRun(b, outcomes) ==
    IF b.pc = "call" /\ outcomes # <<>>
    THEN BackoffRun(BackoffInvoke(b, Head(outcomes)), Tail(outcomes))
    ELSE IF b.pc = "delay" THEN BackoffRun(BackoffDelayed(b), outcomes)
    ELSE b

\* the fetch of one exchange: through withExponentialBackoff (index.js) or
\* a single request (App.jsx)
FetchRun(v, script) ==
    BackoffRun(BackoffStart(IF v = "index" THEN DefaultMaxRetries ELSE 1),
               script.fails \o <<OkOutcome>>)

RECURSIVE TrimStart(_)
TrimStart(s) == IF s # <<>> /\ IsWs(Head(s)) THEN TrimStart(Tail(s)) ELSE s

RECURSIVE TrimEnd(_)
TrimEnd(s) == IF s # <<>> /\ IsWs(s[Len(s)]) THEN TrimEnd(SubSeq(s, 1, Len(s) - 1)) ELSE s

\* String.prototype.trim
Trim(s) == TrimEnd(TrimStart(s))

\* s.split(/\s+/): the pieces of JsSplitWs without the separators
JsSplitWords(s) == OddElements(JsSplitWs(s))

\* words.join(" ")
RECURSIVE JoinSpace(_)
JoinSpace(ws) == IF ws = <<>> THEN <<>>
                 ELSE IF Len(ws) = 1 THEN ws[1]
                 ELSE ws[1] \o <<" ">> \o JoinSpace(Tail(ws))

Ellipsis == <<".", ".", ".">>

TitleWords == 5

TitleChars == 30

\* index.js: userInput.split(/\s+/).slice(0, 5).join(" ") + "..."
\* App.jsx:  textToSend.substring(0, 30) + (textToSend.length > 30 ? "..." : "")
DerivedTitle(v, text) ==
    IF v = "index"
    THEN LET w == JsSplitWords(text)
         IN  JoinSpace(SubSeq(w, 1, IF Len(w) < TitleWords THEN Len(w) ELSE TitleWords)) \o Ellipsis
    ELSE SubSeq(text, 1, IF Len(text) < TitleChars THEN Len(text) ELSE TitleChars)
            \o (IF Len(text) > TitleChars THEN Ellipsis ELSE <<>>)

AutoStartTitle == <<"A", "u", "t", "o", "-", "S", "t", "a", "r", "t", " ", "C", "h", "a", "t">>

NewChatTitle == <<"N", "e", "w", " ", "C", "h", "a", "t", " ">>

ChatTitle == <<"C", "h", "a", "t", " ">>

\* index.js: initialTitle || ("New Chat " + new Date().toLocaleTimeString())
\* App.jsx:  `Chat ${sessions.length + 1}`
NewSessionTitle(v, auto, listLen) ==
    IF v = "index" THEN (IF auto THEN AutoStartTitle ELSE NewChatTitle \o <<"t">>)
    ELSE ChatTitle \o Digits(listLen + 1)

\* `ERROR: Failed to get response from AI. Details: ${e.message}` (the message
\* of the failed store write is not modelled further)
ErrorResponseText == <<"E", "R", "R", "O", "R", ":", " ", "F", "a", "i", "l", "e", "d", " ", "t", "o", " ", "g", "e", "t", " ", "r", "e", "s", "p", "o", "n", "s", "e", " ", "f", "r", "o", "m", " ", "A", "I", ".", " ", "D", "e", "t", "a", "i", "l", "s", ":", " ", "x">>

(***************************************************************************)
(* The store.                                                              *)
(***************************************************************************)
SessionIds == {s.id : s \in sessions}

SessionOf(id) == CHOOSE s \in sessions : s.id = id

RECURSIVE SetToDescSeq(_)
SetToDescSeq(S) ==
    IF S = {} THEN <<>>
    ELSE LET m == CHOOSE x \in S : \A y \in S : y.id <= x.id
         IN  <<m>> \o SetToDescSeq(S \ {m})

\* the same query ordered by createdAt ascending
SessionsQueryAscending ==
    LET listed == {s \in sessions : s.listed}
        sorted == SetToDescSeq(listed)
        n      == Len(sorted)
    IN  [i \in 1..n |-> [id |-> sorted[n + 1 - i].id, title |-> sorted[n + 1 - i].title]]

\* query(sessions, orderBy('createdAt', 'desc')): documents without the field
\* are not returned; ids are handed out in creation order
SessionsQuery ==
    LET listed == {s \in sessions : s.listed}
        sorted == SetToDescSeq(listed)
    IN  [i \in 1..Len(sorted) |-> [id |-> sorted[i].id, title |-> sorted[i].title]]

MessagesLimit(v) == IF v = "index" THEN 100 ELSE 50

\* query(messages, sessionId == sid, limit(n)), as the listener maps and orders it
MessagesQuery(v, sid) ==
    LET mine  == SelectSeq(msgs, LAMBDA m : m.sid = sid)
        n     == IF Len(mine) < MessagesLimit(v) THEN Len(mine) ELSE MessagesLimit(v)
    IN  [i \in 1..n |-> [id |-> <<"m", mine[i].id>>, sender |-> mine[i].sender, text |-> mine[i].text]]

\* the same write addressed to the session selected when it is made
AddMessageToSelected(sid, sender, text, e) ==
    Append(msgs, [id |-> nextMid, sid |-> curSid, sender |-> sender, text |-> text, ex |-> e])

\* addDoc(messages, {sessionId, sender, text, ...}): no check of the session
AddMessage(sid, sender, text, e) ==
    Append(msgs, [id |-> nextMid, sid |-> sid, sender |-> sender, text |-> text, ex |-> e])

RemoveMessage(mid) == SelectSeq(msgs, LAMBDA m : m.id # mid)

\* setDoc(sessionDocRef, { title }, { merge: true }): creates the document
\* (with a title only) when it does not exist
MergeTitle(sid, title) ==
    IF sid \in SessionIds
    THEN {IF s.id = sid THEN [s EXCEPT !.title = title] ELSE s : s \in sessions}
    ELSE sessions \cup {[id |-> sid, title |-> title, auto |-> FALSE, listed |-> FALSE]}


(***************************************************************************)
(* The App component's state.                                              *)
(***************************************************************************)
auxVars == <<bk, st>>

storeVars == <<sessions, msgs, nextSid, nextMid>>

mainVars == <<variant, sessions, msgs, nextSid, nextMid, sessList, curSid, view,
              input, isTyping, error, sessDirty, msgDirty, timers, creating,
              deleting, ex, nEx, faults, emptyObs, ops, lim, backend, feed, derived>>

\* everything of the App component and the REST backend
mainVarsButFeed == <<variant, sessions, msgs, nextSid, nextMid, sessList, curSid, view,
                     input, isTyping, error, sessDirty, msgDirty, timers, creating,
                     deleting, ex, nEx, faults, emptyObs, ops, lim, backend>>

\* everything but the REST backend and its client
firestoreVars == <<bk, st, variant, sessions, msgs, nextSid, nextMid, sessList, curSid,
                   view, input, isTyping, error, sessDirty, msgDirty, timers, creating,
                   deleting, ex, nEx, faults, emptyObs, ops, lim, feed, derived>>

vars == <<bk, st, variant, sessions, msgs, nextSid, nextMid, sessList, curSid, view,
          input, isTyping, error, sessDirty, msgDirty, timers, creating,
          deleting, ex, nEx, faults, emptyObs, ops, lim, backend, feed, derived>>

RestNoResponse == [op |-> "none", id |-> 0, status |-> 0, existed |-> FALSE, text |-> <<>>]

\* the database after the CREATE TABLE IF NOT EXISTS statements and the
\* client before its first request.  fk: whether the connection enforces
\* foreign keys; key: whether process.env.GEMINI_API_KEY is set; asked: the
\* contents of the last request made to the completion service
RestStart(fk) ==
    [fk |-> fk, key |-> TRUE, chats |-> {}, messages |-> <<>>, nextChat |-> 1, nextMsg |-> 1,
     posting |-> <<>>, asked |-> <<>>, list |-> <<>>, cur |-> 0, err |-> "", refetch |-> TRUE,
     create |-> 0, resp |-> RestNoResponse]

\* the backend is not part of the deployment
RestUnused == [RestStart(FALSE) EXCEPT !.refetch = FALSE]

\* no title is being derived
TitleUnused == [pc |-> "unused", v |-> "index", text |-> <<>>, title |-> <<>>]

\* a messages collection nobody has written to, and its listener
FeedStart(v, skew, rev) ==
    [v |-> v, skew |-> skew, rev |-> rev, clock |-> 1, docs |-> {}, shown |-> <<>>,
     dirty |-> TRUE]

\* the collection is not looked at
FeedUnused == [FeedStart("index", 0, FALSE) EXCEPT !.dirty = FALSE]

\* the numbers handleSend calls can have in any of the specifications
ExchangeIds == 1..(IF ChatSends > AppSends THEN ChatSends ELSE AppSends)

IdleExchange ==
    [pc |-> "idle", sid |-> 0, text |-> <<>>, hist |-> <<>>, titleDue |-> FALSE,
     emptyAtSend |-> FALSE, stream |-> StreamNew, botText |-> <<>>,
     all500 |-> FALSE, overlap |-> FALSE, userFailed |-> FALSE,
     userMid |-> 0, botMid |-> 0, undo |-> <<>>]

Placeholder(e) == [id |-> <<"p", e>>, sender |-> "bot", text |-> <<>>]

ListIds(l) == {l[i].id : i \in 1..Len(l)}

\* who arms a setTimeout(createSession): the sessions listener or deleteSession
TimerKinds == {"listener", "delete"}

\* sessions.length as the createSession of a timer's closure sees it.  The
\* sessions effect of App.jsx depends on it (through createSession), so the
\* listener's closure always holds the length of the displayed list;
\* index.js's createSession does not read it
ClosureLen(v, list) == IF v = "index" THEN 0 ELSE Len(list)

\* the state after auth: db and userId are set, nothing is selected, the
\* sessions listener has subscribed and owes its first snapshot
MainInit ==
    /\ sessions = {}
    /\ msgs = <<>>
    /\ nextSid = 1
    /\ nextMid = 1
    /\ sessList = <<>>
    /\ curSid = 0
    /\ view = <<>>
    /\ input = <<>>
    /\ isTyping = FALSE
    /\ error = ""
    /\ sessDirty = TRUE
    /\ msgDirty = FALSE
    /\ timers = [k \in TimerKinds, l \in 0..MaxSessions |-> 0]
    /\ creating = {}
    /\ deleting = {}
    /\ ex = [e \in 1..lim.sends |-> IdleExchange]
    /\ nEx = 0
    /\ faults = 0
    /\ emptyObs = 0
    /\ ops = 0

\* setCurrentSessionId(c) and the effects that depend on currentSessionId:
\* both listeners unsubscribe and subscribe again, and the messages effect
\* empties the list when nothing is selected
Select(c, baseView, sessTouched, msgTouched) ==
    /\ curSid' = c
    /\ view' = IF c # curSid /\ c = 0 THEN <<>> ELSE baseView
    /\ sessDirty' = (sessDirty \/ sessTouched \/ c # curSid)
    /\ msgDirty' = IF c # curSid THEN c # 0 ELSE (msgDirty \/ msgTouched)

(***************************************************************************)
(* Listeners.                                                              *)
(***************************************************************************)
\* the sessions effect runs again when one of its dependencies changed:
\* currentSessionId, and in App.jsx createSession, which is made anew when
\* sessions.length changes
Resubscribes(v, curChanged, lenChanged) ==
    curChanged \/ (v = "app" /\ lenChanged)

\* mutant of AutoStartTimers: the empty snapshot arms two timers
AutoStartTimersTwice(n) == n + 2

\* setTimeout(() => createSession(...), ...) on an empty snapshot
AutoStartTimers(n) == n + 1

\* onSnapshot(sessions query): setSessions and the auto-start logic
SessionsSnapshot ==
    /\ sessDirty
    /\ LET fetched == SessionsQuery
           empty   == Len(fetched) = 0
           pick    == IF variant = "index"
                      THEN Len(fetched) > 0 /\ curSid = 0
                      ELSE ~empty /\ (curSid = 0 \/ curSid \notin ListIds(fetched))
           c       == IF pick THEN fetched[1].id ELSE curSid
       IN  /\ sessList' = fetched
           /\ timers' = IF empty
                      THEN [timers EXCEPT !["listener", ClosureLen(variant, sessList)] = AutoStartTimers(@)]
                      ELSE timers
           /\ emptyObs' = IF empty THEN emptyObs + 1 ELSE emptyObs
           /\ curSid' = c
           /\ sessDirty' = Resubscribes(variant, c # curSid, Len(fetched) # Len(sessList))
           /\ msgDirty' = IF c # curSid THEN TRUE ELSE msgDirty
           /\ view' = view
    /\ UNCHANGED <<derived, feed, backend, bk, st, variant, storeVars, input, isTyping, error, creating, deleting,
                   ex, nEx, faults, ops, lim>>

\* onSnapshot(messages query of the selected session): setMessages(fetched)
MessagesSnapshot ==
    /\ msgDirty
    /\ curSid # 0
    /\ view' = MessagesQuery(variant, curSid)
    /\ msgDirty' = FALSE
    /\ UNCHANGED <<derived, feed, backend, bk, st, variant, storeVars, sessList, curSid, input, isTyping, error,
                   sessDirty, timers, creating, deleting, ex, nEx, faults, emptyObs, ops, lim>>

(***************************************************************************)
(* Sessions: create, switch, delete.                                       *)
(***************************************************************************)
\* createSession up to its await: the document is written locally
CreateCall(auto, listLen) ==
    /\ nextSid <= MaxSessions
    /\ sessions' = sessions \cup
           {[id |-> nextSid, title |-> NewSessionTitle(variant, auto, listLen),
             auto |-> auto, listed |-> TRUE]}
    /\ nextSid' = nextSid + 1
    /\ creating' = creating \cup {nextSid}
    /\ sessDirty' = TRUE

\* a timer armed by the sessions listener (k = "listener") or by App.jsx's
\* deleteSession (k = "delete") fires and calls createSession
AutoTimerFire(k, l) ==
    /\ timers[k, l] > 0
    /\ timers' = [timers EXCEPT ![k, l] = @ - 1]
    /\ CreateCall(k = "listener", l)
    /\ UNCHANGED <<derived, feed, backend, bk, st, variant, msgs, nextMid, sessList, curSid, view, input, isTyping,
                   error, msgDirty, deleting, ex, nEx, faults, emptyObs, ops, lim>>

\* the New Chat button
CreateClick ==
    /\ ops < lim.ops
    /\ ops' = ops + 1
    /\ CreateCall(FALSE, Len(sessList))
    /\ UNCHANGED <<derived, feed, backend, bk, st, variant, msgs, nextMid, sessList, curSid, view, input, isTyping,
                   error, msgDirty, timers, deleting, ex, nEx, faults, emptyObs, lim>>

\* createSession after its await: setCurrentSessionId(docRef.id)
CreateAck(s) ==
    /\ s \in creating
    /\ creating' = creating \ {s}
    /\ Select(s, view, TRUE, FALSE)
    /\ UNCHANGED <<derived, feed, backend, bk, st, variant, storeVars, sessList, input, isTyping, error, timers,
                   deleting, ex, nEx, faults, emptyObs, ops, lim>>

\* createSession's catch: the write is rejected and rolled back
CreateFail(s) ==
    /\ s \in creating
    /\ faults < lim.faults
    /\ faults' = faults + 1
    /\ creating' = creating \ {s}
    /\ sessions' = {x \in sessions : x.id # s}
    /\ sessDirty' = TRUE
    /\ error' = "create-failed"
    /\ UNCHANGED <<derived, feed, backend, bk, st, variant, msgs, nextSid, nextMid, sessList, curSid, view, input,
                   isTyping, msgDirty, timers, deleting, ex, nEx, emptyObs, ops, lim>>

\* switchSession(id), from the sidebar's list
SwitchSession(s) ==
    /\ s \in ListIds(sessList)
    /\ s # curSid
    /\ Select(s, view, FALSE, FALSE)
    /\ UNCHANGED <<derived, feed, backend, bk, st, variant, storeVars, sessList, input, isTyping, error, timers,
                   creating, deleting, ex, nEx, faults, emptyObs, ops, lim>>

\* deleteSession up to its first await (getDocs); the handler keeps the
\* currentSessionId and sessions of the render it was created in
DeleteStart(s) ==
    /\ s \in ListIds(sessList)
    /\ ops < lim.ops
    /\ ops' = ops + 1
    /\ deleting' = deleting \cup {[sid |-> s, cur |-> curSid, list |-> sessList, pc |-> "read"]}
    /\ UNCHANGED <<derived, feed, backend, bk, st, variant, storeVars, sessList, curSid, view, input, isTyping, error,
                   sessDirty, msgDirty, timers, creating, ex, nEx, faults, emptyObs, lim>>

\* deleteSession(s) run to its end by another client of the same user: this
\* client sees the session document and its messages go
RemoteDelete(s) ==
    /\ ops < lim.ops
    /\ ops' = ops + 1
    /\ s \in SessionIds
    /\ s \notin creating
    /\ msgs' = SelectSeq(msgs, LAMBDA m : m.sid # s)
    /\ sessions' = {x \in sessions : x.id # s}
    /\ sessDirty' = TRUE
    /\ msgDirty' = (msgDirty \/ s = curSid)
    /\ UNCHANGED <<derived, feed, backend, bk, st, variant, nextSid, nextMid, sessList, curSid, view, input, isTyping,
                   error, timers, creating, deleting, ex, nEx, faults, emptyObs, lim>>

\* getDocs resolves with the session's messages of that moment; the batch
\* deletes exactly those and the session document, and is committed
DeleteCommit(s) ==
  \E d \in deleting :
    /\ d.sid = s
    /\ d.pc = "read"
    /\ deleting' = (deleting \ {d}) \cup {[d EXCEPT !.pc = "commit"]}
    /\ msgs' = SelectSeq(msgs, LAMBDA m : m.sid # d.sid)
    /\ sessions' = {x \in sessions : x.id # d.sid}
    /\ sessDirty' = TRUE
    /\ msgDirty' = (msgDirty \/ d.sid = curSid)
    /\ UNCHANGED <<derived, feed, backend, bk, st, variant, nextSid, nextMid, sessList, curSid, view, input, isTyping,
                   error, timers, creating, ex, nEx, faults, emptyObs, ops, lim>>

\* after batch.commit(): move the selection if the deleted session was selected
DeleteAck(s) ==
  \E d \in deleting :
    /\ d.sid = s
    /\ d.pc = "commit"
    /\ deleting' = deleting \ {d}
    /\ LET remaining == SelectSeq(d.list, LAMBDA x : x.id # d.sid)
       IN  IF d.sid = d.cur
           THEN IF Len(remaining) > 0
                THEN /\ Select(remaining[1].id, view, FALSE, FALSE)
                     /\ timers' = timers
                ELSE /\ Select(0, IF variant = "index" THEN <<>> ELSE view, FALSE, FALSE)
                     /\ timers' = IF variant = "app"
                                THEN [timers EXCEPT !["delete", Len(d.list)] = @ + 1]
                                ELSE timers
           ELSE UNCHANGED <<curSid, view, sessDirty, msgDirty, timers>>
    /\ UNCHANGED <<derived, feed, backend, bk, st, variant, storeVars, sessList, input, isTyping, error, creating,
                   ex, nEx, faults, emptyObs, ops, lim>>

\* deleteSession's catch: getDocs failed, nothing was deleted
DeleteFail(s) ==
  \E d \in deleting :
    /\ d.sid = s
    /\ d.pc = "read"
    /\ faults < lim.faults
    /\ faults' = faults + 1
    /\ deleting' = deleting \ {d}
    /\ error' = "delete-failed"
    /\ UNCHANGED <<derived, feed, backend, bk, st, variant, storeVars, sessList, curSid, view, input, isTyping,
                   sessDirty, msgDirty, timers, creating, ex, nEx, emptyObs, ops, lim>>


(***************************************************************************)
(* handleSend.                                                             *)
(***************************************************************************)
\* the text handleSend works with: input (index.js), input.trim() (App.jsx)
SendText(v, in) == IF v = "index" THEN in ELSE Trim(in)

\* index.js: if (!input.trim() || isTyping || !userId || !currentSessionId) return;
\* App.jsx:  if (!textToSend) return;
SendAccepted(v, in, typing, cur) ==
    IF v = "index" THEN Trim(in) # <<>> /\ ~typing /\ cur # 0
    ELSE Trim(in) # <<>>

IsErrorText(t) == StartsWith(t, ErrorMarker)

Role(sender) == IF sender = "user" THEN "user" ELSE "model"

\* index.js: messages.filter(not ERROR).map(role, text), then the user turn
\* App.jsx:  messages.map(sender, text), then (in askAIStream) the user turn
HistoryFor(v, msgList, text) ==
    LET kept == IF v = "index"
                THEN SelectSeq(msgList, LAMBDA m : ~IsErrorText(m.text))
                ELSE msgList
    IN  [i \in 1..Len(kept) |-> [role |-> Role(kept[i].sender), text |-> kept[i].text]]
            \o <<[role |-> "user", text |-> text]>>

\* index.js: !currentSession || currentSession.title.startsWith("Auto-Start Chat")
TitleDue(list, sid) ==
    \/ sid \notin ListIds(list)
    \/ \E i \in 1..Len(list) : list[i].id = sid /\ StartsWith(list[i].title, AutoStartTitle)

\* the user types t (setInput) and submits; handleSend returns at its guard.
\* index.js reports a missing session
SendRejected(t) ==
    /\ nEx < lim.sends
    /\ t \in Inputs
    /\ ~SendAccepted(variant, t, isTyping, curSid)
    /\ nEx' = nEx + 1
    /\ ex' = [ex EXCEPT ![nEx + 1] =
                  [IdleExchange EXCEPT
                      !.pc = "rejected",
                      !.sid = curSid,
                      !.text = t,
                      !.overlap = (\E p \in 1..nEx : ex[p].pc = "stream")]]
    /\ input' = t
    /\ error' = IF variant = "index" /\ curSid = 0 THEN "no-session" ELSE error
    /\ UNCHANGED <<derived, feed, backend, bk, st, variant, storeVars, sessList, curSid, view, isTyping,
                   sessDirty, msgDirty, timers, creating, deleting, faults,
                   emptyObs, ops, lim>>

\* the user types t (setInput) and submits: handleSend up to its first await
Send(t) ==
    /\ nEx < lim.sends
    /\ t \in Inputs
    /\ SendAccepted(variant, t, isTyping, curSid)
    /\ LET e     == nEx + 1
           text  == SendText(variant, t)
           saved == variant = "index" \/ curSid # 0
           rec   == [IdleExchange EXCEPT
                        !.pc = IF saved THEN "saveUser" ELSE "fetch",
                        !.sid = curSid,
                        !.text = text,
                        !.hist = HistoryFor(variant, view, text),
                        !.titleDue = TitleDue(sessList, curSid),
                        !.emptyAtSend = (Len(view) = 0),
                        !.overlap = (\E p \in 1..nEx : ex[p].pc = "stream"),
                        !.userMid = IF saved THEN nextMid ELSE 0]
       IN  /\ nEx' = e
           /\ ex' = [ex EXCEPT ![e] = rec]
           /\ input' = <<>>
           /\ isTyping' = TRUE
           /\ error' = ""
           /\ IF saved
              THEN /\ msgs' = AddMessage(curSid, "user", text, e)
                   /\ nextMid' = nextMid + 1
                   /\ msgDirty' = TRUE
                   /\ view' = view
              ELSE /\ UNCHANGED <<msgs, nextMid, msgDirty>>
                   /\ view' = Append(view, Placeholder(e))
    /\ UNCHANGED <<derived, feed, backend, bk, st, variant, sessions, nextSid, sessList, curSid, sessDirty, timers,
                   creating, deleting, faults, emptyObs, ops, lim>>

\* the user message is written; the placeholder is added and the stream's
\* first next() is called
UserSaveAck(e) ==
    /\ e \in DOMAIN ex
    /\ ex[e].pc = "saveUser"
    /\ ex' = [ex EXCEPT ![e].pc = "fetch"]
    /\ view' = Append(view, Placeholder(e))
    /\ msgDirty' = (msgDirty \/ (ex[e].sid = curSid /\ curSid # 0))
    /\ UNCHANGED <<derived, feed, backend, bk, st, variant, storeVars, sessList, curSid, input, isTyping, error,
                   sessDirty, timers, creating, deleting, nEx, faults, emptyObs, ops, lim>>

\* the user message is rejected: index.js stops the exchange, App.jsx's
\* saveMessage swallows the failure and the exchange goes on
UserSaveFail(e) ==
    /\ e \in DOMAIN ex
    /\ ex[e].pc = "saveUser"
    /\ faults < lim.faults
    /\ faults' = faults + 1
    /\ msgs' = RemoveMessage(ex[e].userMid)
    /\ msgDirty' = (msgDirty \/ (ex[e].sid = curSid /\ curSid # 0))
    /\ error' = "save-failed"
    /\ IF variant = "index"
       THEN /\ ex' = [ex EXCEPT ![e].pc = "aborted", ![e].userFailed = TRUE]
            /\ isTyping' = FALSE
            /\ view' = view
       ELSE /\ ex' = [ex EXCEPT ![e].pc = "fetch", ![e].userFailed = TRUE]
            /\ isTyping' = isTyping
            /\ view' = Append(view, Placeholder(e))
    /\ UNCHANGED <<derived, feed, backend, bk, st, variant, sessions, nextSid, nextMid, sessList, curSid, input,
                   sessDirty, timers, creating, deleting, nEx, emptyObs, ops, lim>>

\* mutant of ViewWithText: the text goes into every placeholder
ViewWithTextAnyPlaceholder(v, list, e, text) ==
    [i \in 1..Len(list) |->
        IF list[i].id[1] = "p" THEN [list[i] EXCEPT !.text = text] ELSE list[i]]

\* index.js: if the last message is the placeholder, set its text
\* App.jsx:  set the text of the message with the placeholder's id
ViewWithText(v, list, e, text) ==
    IF v = "index"
    THEN IF Len(list) > 0 /\ list[Len(list)].id = <<"p", e>>
         THEN [list EXCEPT ![Len(list)].text = text]
         ELSE list
    ELSE [i \in 1..Len(list) |->
             IF list[i].id = <<"p", e>> THEN [list[i] EXCEPT !.text = text] ELSE list[i]]

\* index.js step 6: setMessages(prev => prev.filter(msg => msg.id !== botMessageId))
WithoutPlaceholder(list, e) == SelectSeq(list, LAMBDA m : m.id # <<"p", e>>)

\* mutant of FinalBotText: the value of the closing result is appended too
FinalBotTextWithClosing(acc, closing) == acc \o closing.value

\* what the consumer has accumulated when the loop ends: while (!next.done)
\* and for await both drop the value of the result that has done: true
FinalBotText(acc, closing) == acc

\* the code after the loop, up to its next await.  r is the exchange with
\* its final botText, v0 the visible list
EndOfStream(e, r, v0) ==
    IF variant = "index"
    THEN \* await saveMessage("bot", botText, currentSessionId)
         /\ msgs' = AddMessage(r.sid, "bot", r.botText, e)
         /\ nextMid' = nextMid + 1
         /\ msgDirty' = (msgDirty \/ r.sid = curSid)
         /\ ex' = [ex EXCEPT ![e] = [r EXCEPT !.pc = "saveBot", !.botMid = nextMid]]
         /\ view' = v0
         /\ UNCHANGED <<sessions, sessDirty, isTyping>>
    ELSE /\ isTyping' = FALSE
         /\ view' = v0
         /\ IF r.sid = 0
            THEN \* doc(db, ..., 'sessions', null) throws
                 /\ ex' = [ex EXCEPT ![e] = [r EXCEPT !.pc = "crashed"]]
                 /\ UNCHANGED <<msgs, nextMid, msgDirty, sessions, sessDirty>>
            ELSE IF r.emptyAtSend
            THEN \* await setDoc(sessionDocRef, { name }, { merge: true })
                 /\ sessions' = MergeTitle(r.sid, DerivedTitle(variant, r.text))
                 /\ sessDirty' = TRUE
                 /\ ex' = [ex EXCEPT ![e] = [r EXCEPT !.pc = "title",
                               !.undo = IF r.sid \in SessionIds
                                        THEN <<SessionOf(r.sid).title>> ELSE <<>>]]
                 /\ UNCHANGED <<msgs, nextMid, msgDirty>>
            ELSE IF r.botText = <<>>
            THEN \* saveMessage returns at once: !text
                 /\ ex' = [ex EXCEPT ![e] = [r EXCEPT !.pc = "done"]]
                 /\ UNCHANGED <<msgs, nextMid, msgDirty, sessions, sessDirty>>
            ELSE /\ msgs' = AddMessage(r.sid, "bot", r.botText, e)
                 /\ nextMid' = nextMid + 1
                 /\ msgDirty' = (msgDirty \/ r.sid = curSid)
                 /\ ex' = [ex EXCEPT ![e] = [r EXCEPT !.pc = "saveBot", !.botMid = nextMid]]
                 /\ UNCHANGED <<sessions, sessDirty>>

\* the consumer's step on a fragment: botText += chunk, the placeholder's
\* text is set, the next next() is called; after the last fragment that
\* next() returns done at once and the code after the loop runs
OnChunk(e, r0) ==
    LET s    == r0.stream
        res  == StreamChunkResult(s)
        s2   == StreamAdvanced(s)
        text == r0.botText \o res.value
        v1   == ViewWithText(variant, view, e, text)
        r    == [r0 EXCEPT !.pc = "stream", !.stream = s2, !.botText = text]
    IN  IF StreamExhausted(s2)
        THEN /\ EndOfStream(e, [r EXCEPT !.botText = FinalBotText(@, StreamDoneResult(variant, s2))], v1)
             /\ UNCHANGED <<nextSid>>
        ELSE /\ ex' = [ex EXCEPT ![e] = r]
             /\ view' = v1
             /\ UNCHANGED <<storeVars, isTyping, sessDirty, msgDirty>>

\* the first next() returns: the fetch (with its retries) has come back and,
\* on a reply, the first fragment is handed over; on a failure the error
\* result ends the stream.  The history went out with the request and is
\* not used again
FirstNext(e, script) ==
    /\ e \in DOMAIN ex
    /\ ex[e].pc = "fetch"
    /\ script \in FetchScripts
    /\ LET run == FetchRun(variant, script)
           r   == [ex[e] EXCEPT !.all500 = (run.pc = "thrown" /\ run.result.status = 500),
                                !.hist = <<>>]
       IN  IF run.pc = "returned"
           THEN OnChunk(e, [r EXCEPT !.stream = StreamFetched(@, script.reply)])
           ELSE /\ EndOfStream(e, [r EXCEPT !.botText = FinalBotText(@, StreamErrorResult(run.result))], view)
                /\ UNCHANGED <<nextSid>>
    /\ UNCHANGED <<derived, feed, backend, bk, st, variant, sessList, curSid, input, error, timers, creating,
                   deleting, nEx, faults, emptyObs, ops, lim>>

\* a later next() returns a fragment
StreamChunk(e) ==
    /\ e \in DOMAIN ex
    /\ ex[e].pc = "stream"
    /\ OnChunk(e, ex[e])
    /\ UNCHANGED <<derived, feed, backend, bk, st, variant, sessList, curSid, input, error, timers, creating,
                   deleting, nEx, faults, emptyObs, ops, lim>>

\* the title write: setDoc(sessionDocRef, { title }, { merge: true })
StartTitle(e) ==
    /\ sessions' = MergeTitle(ex[e].sid, DerivedTitle(variant, ex[e].text))
    /\ sessDirty' = TRUE
    /\ ex' = [ex EXCEPT ![e].pc = "title",
                        ![e].undo = IF ex[e].sid \in SessionIds
                                    THEN <<SessionOf(ex[e].sid).title>> ELSE <<>>]

\* a rejected title write is rolled back
UndoTitle(e) ==
    IF ex[e].undo = <<>>
    THEN {x \in sessions : x.id # ex[e].sid \/ x.listed}
    ELSE {IF x.id = ex[e].sid THEN [x EXCEPT !.title = ex[e].undo[1]] ELSE x : x \in sessions}

\* index.js step 6 (cleanup) and setIsTyping(false)
Cleanup(e) ==
    /\ view' = WithoutPlaceholder(view, e)
    /\ isTyping' = FALSE

\* index.js catch block: botText = `ERROR: ...`; setError(botText);
\* await saveMessage("bot", botText, currentSessionId)
SaveErrorMessage(e) ==
    /\ error' = "ai-failed"
    /\ ex' = [ex EXCEPT ![e].pc = "saveErr", ![e].botText = ErrorResponseText,
                        ![e].botMid = nextMid]
    /\ msgs' = Append(RemoveMessage(IF ex[e].pc = "saveBot" THEN ex[e].botMid ELSE 0),
                      [id |-> nextMid, sid |-> ex[e].sid, sender |-> "bot",
                       text |-> ErrorResponseText, ex |-> e])
    /\ nextMid' = nextMid + 1
    /\ msgDirty' = (msgDirty \/ ex[e].sid = curSid)

\* the bot message is written
BotSaveAck(e) ==
    /\ e \in DOMAIN ex
    /\ ex[e].pc = "saveBot"
    /\ IF variant = "index" /\ ex[e].titleDue
       THEN /\ StartTitle(e)
            /\ msgDirty' = (msgDirty \/ ex[e].sid = curSid)
            /\ UNCHANGED <<view, isTyping>>
       ELSE /\ ex' = [ex EXCEPT ![e].pc = "done"]
            /\ msgDirty' = (msgDirty \/ ex[e].sid = curSid)
            /\ IF variant = "index" THEN Cleanup(e) ELSE UNCHANGED <<view, isTyping>>
            /\ UNCHANGED <<sessions, sessDirty>>
    /\ UNCHANGED <<derived, feed, backend, bk, st, variant, msgs, nextSid, nextMid, sessList, curSid, input, error,
                   timers, creating, deleting, nEx, faults, emptyObs, ops, lim>>

\* the bot message is rejected: index.js saves an error message instead,
\* App.jsx's saveMessage reports the failure
BotSaveFail(e) ==
    /\ e \in DOMAIN ex
    /\ ex[e].pc = "saveBot"
    /\ faults < lim.faults
    /\ faults' = faults + 1
    /\ IF variant = "index"
       THEN SaveErrorMessage(e)
       ELSE /\ error' = "save-failed"
            /\ ex' = [ex EXCEPT ![e].pc = "done"]
            /\ msgs' = RemoveMessage(ex[e].botMid)
            /\ msgDirty' = (msgDirty \/ ex[e].sid = curSid)
            /\ UNCHANGED <<nextMid>>
    /\ UNCHANGED <<derived, feed, backend, bk, st, variant, sessions, nextSid, sessList, curSid, view, input, isTyping,
                   sessDirty, timers, creating, deleting, nEx, emptyObs, ops, lim>>

\* the title is written: index.js cleans up, App.jsx saves the bot message
TitleAck(e) ==
    /\ e \in DOMAIN ex
    /\ ex[e].pc = "title"
    /\ IF variant = "index"
       THEN /\ ex' = [ex EXCEPT ![e].pc = "done"]
            /\ Cleanup(e)
            /\ UNCHANGED <<msgs, nextMid, msgDirty>>
       ELSE /\ UNCHANGED <<view, isTyping>>
            /\ IF ex[e].botText = <<>>
               THEN /\ ex' = [ex EXCEPT ![e].pc = "done"]
                    /\ UNCHANGED <<msgs, nextMid, msgDirty>>
               ELSE /\ msgs' = AddMessage(ex[e].sid, "bot", ex[e].botText, e)
                    /\ nextMid' = nextMid + 1
                    /\ msgDirty' = (msgDirty \/ ex[e].sid = curSid)
                    /\ ex' = [ex EXCEPT ![e].pc = "saveBot", ![e].botMid = nextMid]
    /\ UNCHANGED <<derived, feed, backend, bk, st, variant, sessions, nextSid, sessList, curSid, input, error,
                   sessDirty, timers, creating, deleting, nEx, faults, emptyObs, ops, lim>>

\* the title write is rejected: index.js's catch saves an error message,
\* in App.jsx the rejection leaves handleSend
TitleFail(e) ==
    /\ e \in DOMAIN ex
    /\ ex[e].pc = "title"
    /\ faults < lim.faults
    /\ faults' = faults + 1
    /\ sessions' = UndoTitle(e)
    /\ sessDirty' = TRUE
    /\ IF variant = "index"
       THEN SaveErrorMessage(e)
       ELSE /\ ex' = [ex EXCEPT ![e].pc = "crashed"]
            /\ UNCHANGED <<msgs, nextMid, msgDirty, error>>
    /\ UNCHANGED <<derived, feed, backend, bk, st, variant, nextSid, sessList, curSid, view, input, isTyping,
                   timers, creating, deleting, nEx, emptyObs, ops, lim>>

\* index.js: the error message is written; cleanup
ErrSaveAck(e) ==
    /\ e \in DOMAIN ex
    /\ ex[e].pc = "saveErr"
    /\ ex' = [ex EXCEPT ![e].pc = "done"]
    /\ Cleanup(e)
    /\ msgDirty' = (msgDirty \/ ex[e].sid = curSid)
    /\ UNCHANGED <<derived, feed, backend, bk, st, variant, storeVars, sessList, curSid, input, error, sessDirty,
                   timers, creating, deleting, nEx, faults, emptyObs, ops, lim>>

\* index.js: the error message is rejected too (the store goes on rejecting
\* writes); the rejection leaves handleSend before its cleanup
ErrSaveFail(e) ==
    /\ e \in DOMAIN ex
    /\ ex[e].pc = "saveErr"
    /\ faults' = faults + 1
    /\ ex' = [ex EXCEPT ![e].pc = "crashed"]
    /\ msgs' = RemoveMessage(ex[e].botMid)
    /\ msgDirty' = (msgDirty \/ ex[e].sid = curSid)
    /\ UNCHANGED <<derived, feed, backend, bk, st, variant, sessions, nextSid, nextMid, sessList, curSid, view, input,
                   isTyping, error, sessDirty, timers, creating, deleting, nEx, emptyObs, ops, lim>>

(***************************************************************************)
(* withExponentialBackoff on its own: fn's outcomes are the environment's. *)
(***************************************************************************)
StreamUnused == [pc |-> "unused"]

BackoffInvokeStep(o) ==
    /\ bk.pc = "call"
    /\ o \in {OkOutcome} \cup Failures
    /\ bk' = BackoffInvoke(bk, o)
    /\ UNCHANGED <<st, mainVars>>

BackoffDelayStep ==
    /\ bk.pc = "delay"
    /\ bk' = BackoffDelayed(bk)
    /\ UNCHANGED <<st, mainVars>>

InitBackoff ==
    /\ backend = RestUnused
    /\ feed = FeedUnused
    /\ derived = TitleUnused
    /\ bk \in {BackoffStart(m) : m \in 0..MaxRetriesArg}
    /\ st = StreamUnused
    /\ variant = "index"
    /\ lim = [ops |-> 0, sends |-> 0, faults |-> 0]
    /\ MainInit

NextBackoff ==
    \/ \E o \in {OkOutcome} \cup Failures : BackoffInvokeStep(o)
    \/ BackoffDelayStep

SpecBackoff == InitBackoff /\ [][NextBackoff]_vars

(***************************************************************************)
(* askAIStream on its own: a consumer pulls next() until done, and a few   *)
(* times more.                                                             *)
(***************************************************************************)
Alphabet == {"a", " ", "\n"}

\* the reply texts of the service (<<>>: no text in the reply)
ApiTexts == UNION {[1..n -> Alphabet] : n \in 0..MaxLen}

StreamFailures ==
    { Http500, [kind |-> "network", status |-> 0, statusText |-> <<>>, detail |-> <<>>] }

\* one next(): the iterator's state after it and the result it returns.
\* o is the outcome of the fetch, used by a call that finds fullResponse null
StreamNext(v, s, apiText, o) ==
    IF ~s.fetched /\ o.kind # "ok"
    THEN [s |-> s, result |-> StreamErrorResult(o)]
    ELSE LET s1 == IF s.fetched THEN s ELSE StreamFetched(s, apiText)
         IN  IF StreamExhausted(s1)
             THEN [s |-> s1, result |-> StreamDoneResult(v, s1)]
             ELSE [s |-> StreamAdvanced(s1), result |-> StreamChunkResult(s1)]

\* the consumer's loop: a result that is not done adds its value
StreamConsume(c, n) ==
    [c EXCEPT !.s      = n.s,
              !.last   = n.result,
              !.pulled = IF n.result.done THEN @ ELSE Append(@, n.result.value),
              !.failed = @ \/ (n.result.done /\ ~n.s.fetched),
              !.extra  = IF c.pc = "done" THEN @ + 1 ELSE @,
              !.pc     = IF n.result.done THEN "done" ELSE "open"]

StreamCanPull == st.pc = "open" \/ (st.pc = "done" /\ st.extra < MaxExtraPulls)

\* a next() that has to fetch
StreamPullFetch(o) ==
    /\ StreamCanPull
    /\ ~st.s.fetched
    /\ o \in {OkOutcome} \cup StreamFailures
    /\ st' = StreamConsume(st, StreamNext(st.v, st.s, st.api, o))
    /\ UNCHANGED <<bk, mainVars>>

\* a next() after the fetch
StreamPullChunk ==
    /\ StreamCanPull
    /\ st.s.fetched
    /\ st' = StreamConsume(st, StreamNext(st.v, st.s, st.api, OkOutcome))
    /\ UNCHANGED <<bk, mainVars>>

InitStream ==
    /\ backend = RestUnused
    /\ feed = FeedUnused
    /\ derived = TitleUnused
    /\ bk = BackoffStart(0)
    /\ st \in {[pc |-> "open", v |-> v, api |-> t, s |-> StreamNew, pulled |-> <<>>,
                 last |-> NoResult, failed |-> FALSE, extra |-> 0]
                    : v \in Variants, t \in ApiTexts}
    /\ variant = "index"
    /\ lim = [ops |-> 0, sends |-> 0, faults |-> 0]
    /\ MainInit

NextStream ==
    \/ \E o \in {OkOutcome} \cup StreamFailures : StreamPullFetch(o)
    \/ StreamPullChunk

SpecStream == InitStream /\ [][NextStream]_vars

(***************************************************************************)
(* The REST backend (the express server at the end of src/src/App.jsx)     *)
(* and the deleteSession, createSession and fetchSessions of its client    *)
(* (src/unnamed/part_001).                                                 *)
(***************************************************************************)
\* req.body.title || 'New Chat'
RestNewChatTitle == <<"N", "e", "w", " ", "C", "h", "a", "t">>

\* what askAI returns: a reply, or its text for a failed call
RestTechnicalError ==
    <<"S", "o", "r", "r", "y", ",", " ", "I", " ", "r", "a", "n", " ", "i", "n", "t", "o", " ", "a", " ", "t", "e", "c", "h", "n", "i", "c", "a", "l", " ", "e", "r", "r", "o", "r", ".">>

RestBotTexts == { <<"o", "k">>, RestTechnicalError }

\* req.body.content of POST /api/chats/:id/messages
RestContents == { <<>>, <<"h", "i">> }

RestChatIds(r) == {c.id : c \in r.chats}

\* SELECT chat_id as id, title as name FROM chats ORDER BY created_at DESC
RestChatList(r) ==
    LET sorted == SetToDescSeq(r.chats)
    IN  [i \in 1..Len(sorted) |-> sorted[i].id]

\* SELECT ... FROM messages WHERE chat_id = ? ORDER BY timestamp ASC
RestMessagesOf(r, id) == SelectSeq(r.messages, LAMBDA m : m.chat = id)

\* INSERT INTO messages (chat_id, ...): FOREIGN KEY (chat_id) REFERENCES
\* chats is checked only by a connection that enforces foreign keys
RestInsertOk(r, id) == ~r.fk \/ id \in RestChatIds(r)

\* INSERT INTO messages (chat_id, sender, content) VALUES (?, ?, ?)
RestInsert(r, id, sender, text) ==
    [r EXCEPT !.messages = Append(@, [id |-> r.nextMsg, chat |-> id, sender |-> sender,
                                      text |-> text,
                                      orphan |-> id \notin RestChatIds(r)]),
              !.nextMsg = @ + 1]

\* DELETE FROM chats WHERE chat_id = ?: ON DELETE CASCADE removes the
\* chat's messages only on a connection that enforces foreign keys
RestDeleteChat(r, id) ==
    [r EXCEPT !.chats = {c \in @ : c.id # id},
              !.messages = IF r.fk THEN SelectSeq(@, LAMBDA m : m.chat # id) ELSE @]

\* setCurrentSessionId(c) of the client: fetchSessions is made anew and its
\* effect runs again when currentSessionId changed
RestSelect(r, c) == [r EXCEPT !.cur = c, !.refetch = (@ \/ c # r.cur)]

\* fetchSessions: GET /api/chats, setSessions, and the selection or creation
\* of a chat
RestFetchSessions ==
    /\ backend.refetch
    /\ LET arr == RestChatList(backend)
           r0  == [backend EXCEPT !.refetch = FALSE, !.list = arr,
                               !.resp = [op |-> "list", id |-> 0, status |-> 200,
                                         existed |-> TRUE, text |-> <<>>]]
           has == \E i \in 1..Len(arr) : arr[i] = backend.cur
       IN  backend' = IF backend.cur = 0 /\ Len(arr) > 0 THEN RestSelect(r0, arr[1])
                   ELSE IF backend.cur # 0 /\ ~has
                   THEN IF Len(arr) > 0 THEN RestSelect(r0, arr[1])
                        ELSE [r0 EXCEPT !.create = @ + 1]
                   ELSE IF Len(arr) = 0 THEN [r0 EXCEPT !.create = @ + 1]
                   ELSE r0
    /\ UNCHANGED firestoreVars

\* createSession: POST /api/chats and what the client does with the answer.
\* auto: the call was made by fetchSessions or deleteSession, otherwise by
\* the New Chat button
RestCreateSession(auto) ==
    /\ backend.nextChat <= RestMaxChats
    /\ auto => backend.create > 0
    /\ LET id == backend.nextChat
           r1 == [backend EXCEPT !.chats = @ \cup {[id |-> id, title |-> RestNewChatTitle]},
                              !.nextChat = @ + 1,
                              !.create = IF auto THEN @ - 1 ELSE @,
                              !.list = <<id>> \o @,
                              !.resp = [op |-> "create", id |-> id, status |-> 200,
                                        existed |-> TRUE, text |-> <<>>]]
       IN  backend' = RestSelect(r1, id)
    /\ UNCHANGED firestoreVars

\* switchSession(id) of the sidebar: setCurrentSessionId(id) on a listed chat
RestSwitchSession(id) ==
    /\ \E i \in 1..Len(backend.list) : backend.list[i] = id
    /\ id # backend.cur
    /\ backend.posting = <<>>
    /\ backend' = RestSelect(backend, id)
    /\ UNCHANGED firestoreVars

\* deleteSession(id) of the client with the server's DELETE /api/chats/:id:
\* 404 when no row was deleted; axios rejects on it and the catch sets the
\* error message
RestDeleteSession(id) ==
    /\ id \in 1..RestMaxChats
    /\ LET existed   == id \in RestChatIds(backend)
           r1        == RestDeleteChat(backend, id)
           remaining == SelectSeq(backend.list, LAMBDA x : x # id)
       IN  IF existed
           THEN LET r2 == [r1 EXCEPT !.list = remaining,
                                     !.resp = [op |-> "delete", id |-> id, status |-> 200,
                                               existed |-> TRUE, text |-> <<>>]]
                IN  backend' = IF Len(remaining) > 0
                            THEN RestSelect(r2, remaining[1])
                            ELSE [RestSelect(r2, 0) EXCEPT !.create = @ + 1]
           ELSE backend' = [backend EXCEPT !.err = "delete-failed",
                                     !.resp = [op |-> "delete", id |-> id, status |-> 404,
                                               existed |-> FALSE, text |-> <<>>]]
    /\ UNCHANGED firestoreVars

\* POST /api/chats/:id/messages up to its await askAI: 400 without content,
\* the history is read, the user message is inserted (400 when the insert
\* fails)
RestPostMessage(id, content) ==
    /\ id \in 1..RestMaxChats
    /\ content \in RestContents
    /\ backend.posting = <<>>
    /\ backend.nextMsg <= RestMaxMsgs
    /\ LET existed == id \in RestChatIds(backend)
           refuse  == [backend EXCEPT !.resp = [op |-> "post", id |-> id, status |-> 400,
                                             existed |-> existed, text |-> <<>>]]
       IN  backend' = IF content = <<>> THEN refuse
                   ELSE IF ~RestInsertOk(backend, id) THEN refuse
                   ELSE [RestInsert(backend, id, "user", content) EXCEPT
                            !.posting = <<[chat |-> id, existed |-> existed,
                                           hist |-> RestMessagesOf(backend, id),
                                           content |-> content, failed |-> FALSE]>>]
    /\ UNCHANGED firestoreVars

\* askAI(userText, history): contents = [...history.map(role, content),
\* {role: "user", text: userText}]
RestAskTurns(history, userText) ==
    [i \in 1..Len(history) |-> [role |-> IF history[i].sender = "user" THEN "user" ELSE "model",
                                text |-> history[i].text]]
        \o <<[role |-> "user", text |-> userText]>>

\* const fullHistory = [...history, {sender: 'user', content}];
\* askAI(content, fullHistory)
RestFullHistory(history, content) ==
    Append(history, [sender |-> "user", text |-> content])

\* askAI without GEMINI_API_KEY: it throws before its try, the handler's
\* await rejects inside the db.run callback, and nothing answers the request
RestAskAIThrows ==
    /\ backend.posting # <<>>
    /\ ~backend.key
    /\ ~backend.posting[1].failed
    /\ backend' = [backend EXCEPT !.posting[1].failed = TRUE]
    /\ UNCHANGED firestoreVars

\* askAI has made its request and returned: the bot message is inserted (a
\* failure is logged only) and the exchange is answered
RestBotReply(text) ==
    /\ backend.posting # <<>>
    /\ backend.key
    /\ text \in RestBotTexts
    /\ LET p  == backend.posting[1]
           r0 == [backend EXCEPT !.asked = RestAskTurns(RestFullHistory(p.hist, p.content),
                                                        p.content)]
           r1 == IF RestInsertOk(r0, p.chat) THEN RestInsert(r0, p.chat, "bot", text)
                 ELSE r0
       IN  backend' = [r1 EXCEPT !.posting = <<>>,
                              !.resp = [op |-> "post", id |-> p.chat, status |-> 200,
                                        existed |-> p.existed, text |-> text]]
    /\ UNCHANGED firestoreVars

InitRest ==
    /\ bk = BackoffStart(0)
    /\ st = StreamUnused
    /\ variant = "index"
    /\ lim = [ops |-> 0, sends |-> 0, faults |-> 0]
    /\ MainInit
    /\ backend \in {[RestStart(fk) EXCEPT !.key = k] : fk \in BOOLEAN, k \in BOOLEAN}
    /\ feed = FeedUnused
    /\ derived = TitleUnused

NextRest ==
    \/ RestFetchSessions
    \/ \E auto \in BOOLEAN : RestCreateSession(auto)
    \/ \E id \in 1..RestMaxChats : RestSwitchSession(id)
    \/ \E id \in 1..RestMaxChats : RestDeleteSession(id)
    \/ \E id \in 1..RestMaxChats, content \in RestContents : RestPostMessage(id, content)
    \/ RestAskAIThrows
    \/ \E text \in RestBotTexts : RestBotReply(text)

SpecRest == InitRest /\ [][NextRest]_vars

(***************************************************************************)
(* The messages of one session with their timestamps: what the messages    *)
(* listener of index.js and of App.jsx, and GET /api/chats/:id/messages,   *)
(* hand to the client.  A document is [id, seq, pending, ts]: its id in    *)
(* the store, its number in write order, whether its server timestamp is   *)
(* still to come, and that timestamp.  feed.clock is the server's clock;   *)
(* new Date() on the client reads feed.clock + feed.skew.                  *)
(***************************************************************************)
FeedPending(f) == {d \in f.docs : d.pending}

\* the place of a document in the result of the query, smaller first.
\* index.js: query(messages, where(sessionId), limit(100)) has no orderBy
\*           and returns in document id order
\* App.jsx:  orderBy('createdAt', 'asc'): by timestamp, equal ones in
\*           document id order, writes whose timestamp is to come last, in
\*           write order
\* server:   ORDER BY timestamp ASC; rows of equal timestamp in rowid order
\*           or in the reverse, as the build's sorter leaves them
FeedQueryKey(f, d) ==
    IF f.v = "index" THEN d.id
    ELSE IF f.v = "app"
    THEN IF d.pending THEN (FeedMaxClock + 1) * (FeedMaxDocs + 1) + d.seq
         ELSE d.ts * (FeedMaxDocs + 1) + d.id
    ELSE d.ts * (FeedMaxDocs + 1) + (IF f.rev THEN FeedMaxDocs + 1 - d.id ELSE d.id)

RECURSIVE FeedQuery(_, _)
FeedQuery(f, S) ==
    IF S = {} THEN <<>>
    ELSE LET m == CHOOSE x \in S : \A y \in S : FeedQueryKey(f, x) <= FeedQueryKey(f, y)
         IN  <<m>> \o FeedQuery(f, S \ {m})

\* timestamp: data.timestamp?.toDate ? data.timestamp.toDate() : new Date()
FeedMapped(f, d) ==
    [id |-> d.id, seq |-> d.seq, pending |-> d.pending, ts |-> d.ts,
     at |-> IF d.pending THEN f.clock + f.skew ELSE d.ts]

\* Array.prototype.sort((a, b) => a.timestamp.getTime() - b.timestamp.getTime()),
\* which is stable: x goes behind every element that is not later than it
FeedInsert(sorted, x) ==
    LET k == Cardinality({i \in 1..Len(sorted) : sorted[i].at <= x.at})
    IN  SubSeq(sorted, 1, k) \o <<x>> \o SubSeq(sorted, k + 1, Len(sorted))

RECURSIVE FeedSort(_)
FeedSort(list) ==
    IF list = <<>> THEN <<>>
    ELSE FeedInsert(FeedSort(SubSeq(list, 1, Len(list) - 1)), list[Len(list)])

\* what the client sets as its messages
FeedList(f) ==
    LET q      == FeedQuery(f, f.docs)
        n      == IF f.v = "rest" \/ Len(q) < MessagesLimit(f.v) THEN Len(q)
                  ELSE MessagesLimit(f.v)
        mapped == [i \in 1..n |-> FeedMapped(f, q[i])]
    IN  IF f.v = "index" THEN FeedSort(mapped) ELSE mapped

\* saveMessage: addDoc(messages, {..., timestamp: serverTimestamp()}) under
\* an id the client draws, visible at once without its timestamp; the
\* server's INSERT gives the next rowid and CURRENT_TIMESTAMP.  index.js
\* awaits each write and runs one handleSend at a time, so that it has one
\* write in flight; App.jsx's handleSend calls overlap
FeedAppend(id) ==
    /\ id \in 1..FeedMaxDocs
    /\ feed.v = "index" => FeedPending(feed) = {}
    /\ Cardinality(feed.docs) < FeedMaxDocs
    /\ \A d \in feed.docs : d.id # id
    /\ feed.v = "rest" => id = Cardinality(feed.docs) + 1
    /\ feed' = [feed EXCEPT
                   !.docs = @ \cup {[id |-> id, seq |-> Cardinality(feed.docs) + 1,
                                     pending |-> feed.v # "rest",
                                     ts |-> IF feed.v = "rest" THEN feed.clock ELSE 0]},
                   !.dirty = TRUE]
    /\ UNCHANGED <<bk, st, derived, mainVarsButFeed>>

\* the server has committed the client's oldest write and set its timestamp
FeedAck ==
    /\ FeedPending(feed) # {}
    /\ LET d == CHOOSE x \in FeedPending(feed) : \A y \in FeedPending(feed) : x.seq <= y.seq
       IN  feed' = [feed EXCEPT
                       !.docs = (@ \ {d}) \cup {[d EXCEPT !.pending = FALSE, !.ts = feed.clock]},
                       !.dirty = TRUE]
    /\ UNCHANGED <<bk, st, derived, mainVarsButFeed>>

\* time passes
FeedTick ==
    /\ feed.clock < FeedMaxClock
    /\ feed' = [feed EXCEPT !.clock = @ + 1]
    /\ UNCHANGED <<bk, st, derived, mainVarsButFeed>>

\* onSnapshot's callback (the client's GET): setMessages
FeedSnapshot ==
    /\ feed.dirty
    /\ feed' = [feed EXCEPT !.shown = FeedList(feed), !.dirty = FALSE]
    /\ UNCHANGED <<bk, st, derived, mainVarsButFeed>>

InitFeed ==
    /\ backend = RestUnused
    /\ bk = BackoffStart(0)
    /\ st = StreamUnused
    /\ variant = "index"
    /\ lim = [ops |-> 0, sends |-> 0, faults |-> 0]
    /\ MainInit
    /\ feed \in {FeedStart(v, skew, rev) :
                    v \in {"index", "app", "rest"}, skew \in (0 - FeedMaxSkew)..FeedMaxSkew,
                    rev \in BOOLEAN}
    /\ feed.rev => feed.v = "rest"
    /\ derived = TitleUnused

NextFeed ==
    \/ \E id \in 1..FeedMaxDocs : FeedAppend(id)
    \/ FeedAck
    \/ FeedTick
    \/ FeedSnapshot

SpecFeed == InitFeed /\ [][NextFeed]_vars

(***************************************************************************)
(* The title handleSend derives from the user's text, on its own.          *)
(***************************************************************************)
\* what the user may have typed: the short texts, "Hello", and texts
\* "a a a ..." around the two limits (5 words, 30 characters)
TitleInputs ==
    LET WordsText(n) == [i \in 1..n |-> IF i % 2 = 1 THEN "a" ELSE " "]
    IN  ApiTexts \cup {<<"H", "e", "l", "l", "o">>}
            \cup {WordsText(n) : n \in (2 * TitleWords - 2)..(2 * TitleWords + 1)}
            \cup {WordsText(n) : n \in (TitleChars - 1)..(TitleChars + 2)}

\* handleSend takes the text up to the title update: it returns at once
\* unless input.trim() is non-empty, and works with input (index.js) or
\* input.trim() (App.jsx)
TitleStart(v, in) == [pc |-> "text", v |-> v, text |-> SendText(v, in), title |-> <<>>]

\* the title is computed for the setDoc
DeriveTitle ==
    /\ derived.pc = "text"
    /\ derived' = [derived EXCEPT !.pc = "done", !.title = DerivedTitle(derived.v, derived.text)]
    /\ UNCHANGED <<bk, st, feed, mainVarsButFeed>>

InitTitle ==
    /\ backend = RestUnused
    /\ feed = FeedUnused
    /\ bk = BackoffStart(0)
    /\ st = StreamUnused
    /\ variant = "index"
    /\ lim = [ops |-> 0, sends |-> 0, faults |-> 0]
    /\ MainInit
    /\ derived \in {TitleStart(v, in) : v \in Variants, in \in {x \in TitleInputs : Trim(x) # <<>>}}

NextTitle == DeriveTitle

SpecTitle == InitTitle /\ [][NextTitle]_vars

(***************************************************************************)
(* Specifications of the App component.                                    *)
(***************************************************************************)
AuxIdle == bk = BackoffStart(0) /\ st = StreamUnused

\* src/index.js: the sidebar, one exchange at a time, rejected writes
Init ==
    /\ backend = RestUnused
    /\ feed = FeedUnused
    /\ derived = TitleUnused
    /\ AuxIdle
    /\ variant = "index"
    /\ lim = [ops |-> IndexOps, sends |-> IndexSends, faults |-> IndexFaults]
    /\ MainInit

Next ==
    \/ SessionsSnapshot
    \/ MessagesSnapshot
    \/ \E k \in TimerKinds, l \in 0..MaxSessions : AutoTimerFire(k, l)
    \/ \E s \in 1..MaxSessions : CreateAck(s)
    \/ \E s \in 1..MaxSessions : CreateFail(s)
    \/ CreateClick
    \/ \E s \in 1..MaxSessions : SwitchSession(s)
    \/ \E s \in 1..MaxSessions : DeleteStart(s)
    \/ \E s \in 1..MaxSessions : DeleteCommit(s)
    \/ \E s \in 1..MaxSessions : DeleteAck(s)
    \/ \E s \in 1..MaxSessions : DeleteFail(s)
    \/ \E t \in Inputs : SendRejected(t)
    \/ \E t \in Inputs : Send(t)
    \/ \E e \in ExchangeIds : UserSaveAck(e)
    \/ \E e \in ExchangeIds : UserSaveFail(e)
    \/ \E e \in ExchangeIds, script \in FetchScripts : FirstNext(e, script)
    \/ \E e \in ExchangeIds : StreamChunk(e)
    \/ \E e \in ExchangeIds : BotSaveAck(e)
    \/ \E e \in ExchangeIds : BotSaveFail(e)
    \/ \E e \in ExchangeIds : TitleAck(e)
    \/ \E e \in ExchangeIds : TitleFail(e)
    \/ \E e \in ExchangeIds : ErrSaveAck(e)
    \/ \E e \in ExchangeIds : ErrSaveFail(e)

Spec == Init /\ [][Next]_vars

\* App.jsx after its start: the listener has seen the empty store once, the
\* session it created is written, listed and selected, and both listeners
\* have delivered what they had
Started ==
    /\ sessions = {[id |-> 1, title |-> NewSessionTitle(variant, TRUE, 0),
                    auto |-> TRUE, listed |-> TRUE]}
    /\ msgs = <<>>
    /\ nextSid = 2
    /\ nextMid = 1
    /\ sessList = SessionsQuery
    /\ curSid = 1
    /\ view = <<>>
    /\ input = <<>>
    /\ isTyping = FALSE
    /\ error = ""
    /\ sessDirty = FALSE
    /\ msgDirty = FALSE
    /\ timers = [k \in TimerKinds, l \in 0..MaxSessions |-> 0]
    /\ creating = {}
    /\ deleting = {}
    /\ nEx = 0
    /\ faults = 0
    /\ emptyObs = 1
    /\ ops = 0

\* src/src/App.jsx, from there on: exchanges that overlap
InitApp ==
    /\ backend = RestUnused
    /\ feed = FeedUnused
    /\ derived = TitleUnused
    /\ AuxIdle
    /\ variant = "app"
    /\ lim = [ops |-> 0, sends |-> AppSends, faults |-> 0]
    /\ ex = [e \in 1..lim.sends |-> IdleExchange]
    /\ Started

NextApp ==
    \/ SessionsSnapshot
    \/ MessagesSnapshot
    \/ \E t \in Inputs : SendRejected(t)
    \/ \E t \in Inputs : Send(t)
    \/ \E e \in ExchangeIds : UserSaveAck(e)
    \/ \E e \in ExchangeIds, script \in FetchScripts : FirstNext(e, script)
    \/ \E e \in ExchangeIds : StreamChunk(e)
    \/ \E e \in ExchangeIds : BotSaveAck(e)
    \/ \E e \in ExchangeIds : TitleAck(e)

SpecApp == InitApp /\ [][NextApp]_vars

\* both components once started: the exchanges of a conversation, no
\* sidebar action and no rejected write
InitChat ==
    /\ backend = RestUnused
    /\ feed = FeedUnused
    /\ derived = TitleUnused
    /\ AuxIdle
    /\ variant \in Variants
    /\ lim = [ops |-> 0, sends |-> ChatSends, faults |-> 0]
    /\ ex = [e \in 1..lim.sends |-> IdleExchange]
    /\ Started

NextChat ==
    \/ SessionsSnapshot
    \/ MessagesSnapshot
    \/ \E t \in Inputs : SendRejected(t)
    \/ \E t \in Inputs : Send(t)
    \/ \E e \in ExchangeIds : UserSaveAck(e)
    \/ \E e \in ExchangeIds, script \in FetchScripts : FirstNext(e, script)
    \/ \E e \in ExchangeIds : StreamChunk(e)
    \/ \E e \in ExchangeIds : BotSaveAck(e)
    \/ \E e \in ExchangeIds : TitleAck(e)

SpecChat == InitChat /\ [][NextChat]_vars

\* the same with the steps the runtime takes by itself: a snapshot that is
\* due is delivered, a promise that can resolve resolves.  What the user
\* does (handleSend) is not forced
ChatFairness ==
    /\ WF_vars(SessionsSnapshot)
    /\ WF_vars(MessagesSnapshot)
    /\ \A e \in ExchangeIds :
           /\ WF_vars(UserSaveAck(e))
           /\ WF_vars(\E script \in FetchScripts : FirstNext(e, script))
           /\ WF_vars(StreamChunk(e))
           /\ WF_vars(BotSaveAck(e))
           /\ WF_vars(TitleAck(e))

SpecChatLive == SpecChat /\ ChatFairness

\* both components once started: one exchange whose store writes can be
\* rejected
InitFaults ==
    /\ backend = RestUnused
    /\ feed = FeedUnused
    /\ derived = TitleUnused
    /\ AuxIdle
    /\ variant \in Variants
    /\ lim = [ops |-> 0, sends |-> FaultSends, faults |-> FaultWrites]
    /\ ex = [e \in 1..lim.sends |-> IdleExchange]
    /\ Started

NextFaults ==
    \/ SessionsSnapshot
    \/ MessagesSnapshot
    \/ \E t \in Inputs : SendRejected(t)
    \/ \E t \in Inputs : Send(t)
    \/ \E e \in ExchangeIds : UserSaveAck(e)
    \/ \E e \in ExchangeIds : UserSaveFail(e)
    \/ \E e \in ExchangeIds, script \in FetchScripts : FirstNext(e, script)
    \/ \E e \in ExchangeIds : StreamChunk(e)
    \/ \E e \in ExchangeIds : BotSaveAck(e)
    \/ \E e \in ExchangeIds : BotSaveFail(e)
    \/ \E e \in ExchangeIds : TitleAck(e)
    \/ \E e \in ExchangeIds : TitleFail(e)
    \/ \E e \in ExchangeIds : ErrSaveAck(e)
    \/ \E e \in ExchangeIds : ErrSaveFail(e)

SpecFaults == InitFaults /\ [][NextFaults]_vars

\* the same with the steps the runtime takes by itself: a snapshot that is
\* due is delivered and a promise settles.  That a write is rejected is
\* never forced
FaultsFairness ==
    /\ WF_vars(SessionsSnapshot)
    /\ WF_vars(MessagesSnapshot)
    /\ \A e \in ExchangeIds :
           /\ WF_vars(UserSaveAck(e))
           /\ WF_vars(\E script \in FetchScripts : FirstNext(e, script))
           /\ WF_vars(StreamChunk(e))
           /\ WF_vars(BotSaveAck(e))
           /\ WF_vars(TitleAck(e))
           /\ WF_vars(ErrSaveAck(e))

SpecFaultsLive == SpecFaults /\ FaultsFairness

\* both components: the sessions listener and the sidebar, no exchange
InitSessions ==
    /\ backend = RestUnused
    /\ feed = FeedUnused
    /\ derived = TitleUnused
    /\ AuxIdle
    /\ variant \in Variants
    /\ lim = [ops |-> SessOps, sends |-> 0, faults |-> 0]
    /\ MainInit

NextSessions ==
    \/ SessionsSnapshot
    \/ MessagesSnapshot
    \/ \E k \in TimerKinds, l \in 0..MaxSessions : AutoTimerFire(k, l)
    \/ \E s \in 1..MaxSessions : CreateAck(s)
    \/ CreateClick
    \/ \E s \in 1..MaxSessions : SwitchSession(s)
    \/ \E s \in 1..MaxSessions : DeleteStart(s)
    \/ \E s \in 1..MaxSessions : DeleteCommit(s)
    \/ \E s \in 1..MaxSessions : DeleteAck(s)

SpecSessions == InitSessions /\ [][NextSessions]_vars

\* both components: the sessions listener while the user creates and
\* switches sessions and another client deletes sessions
InitRemote ==
    /\ backend = RestUnused
    /\ feed = FeedUnused
    /\ derived = TitleUnused
    /\ AuxIdle
    /\ variant \in Variants
    /\ lim = [ops |-> RemoteOps, sends |-> 0, faults |-> 0]
    /\ MainInit

NextRemote ==
    \/ SessionsSnapshot
    \/ MessagesSnapshot
    \/ \E k \in TimerKinds, l \in 0..MaxSessions : AutoTimerFire(k, l)
    \/ \E s \in 1..MaxSessions : CreateAck(s)
    \/ CreateClick
    \/ \E s \in 1..MaxSessions : SwitchSession(s)
    \/ \E s \in 1..MaxSessions : RemoteDelete(s)

SpecRemote == InitRemote /\ [][NextRemote]_vars

\* both components after the user has added a second session with New Chat:
\* it is written, listed and selected, and both listeners have delivered
StartedTwo ==
    /\ sessions = {[id |-> 1, title |-> NewSessionTitle(variant, TRUE, 0),
                    auto |-> TRUE, listed |-> TRUE],
                   [id |-> 2, title |-> NewSessionTitle(variant, FALSE, 1),
                    auto |-> FALSE, listed |-> TRUE]}
    /\ msgs = <<>>
    /\ nextSid = 3
    /\ nextMid = 1
    /\ sessList = SessionsQuery
    /\ curSid = 2
    /\ view = <<>>
    /\ input = <<>>
    /\ isTyping = FALSE
    /\ error = ""
    /\ sessDirty = FALSE
    /\ msgDirty = FALSE
    /\ timers = [k \in TimerKinds, l \in 0..MaxSessions |-> 0]
    /\ creating = {}
    /\ deleting = {}
    /\ nEx = 0
    /\ faults = 0
    /\ emptyObs = 1
    /\ ops = 0

\* the exchanges of a conversation while the user switches between two
\* sessions
InitSwitch ==
    /\ backend = RestUnused
    /\ feed = FeedUnused
    /\ derived = TitleUnused
    /\ AuxIdle
    /\ variant \in Variants
    /\ lim = [ops |-> 0, sends |-> SwitchSends, faults |-> 0]
    /\ ex = [e \in 1..lim.sends |-> IdleExchange]
    /\ StartedTwo

NextSwitch ==
    \/ SessionsSnapshot
    \/ MessagesSnapshot
    \/ \E s \in 1..MaxSessions : SwitchSession(s)
    \/ \E t \in Inputs : SendRejected(t)
    \/ \E t \in Inputs : Send(t)
    \/ \E e \in ExchangeIds : UserSaveAck(e)
    \/ \E e \in ExchangeIds, script \in FetchScripts : FirstNext(e, script)
    \/ \E e \in ExchangeIds : StreamChunk(e)
    \/ \E e \in ExchangeIds : BotSaveAck(e)
    \/ \E e \in ExchangeIds : TitleAck(e)

SpecSwitch == InitSwitch /\ [][NextSwitch]_vars

(***************************************************************************)
(* Properties.                                                             *)
(***************************************************************************)
AutoSessions == {s \in sessions : s.auto}

NoListenerTimer == \A l \in 0..MaxSessions : timers["listener", l] = 0

\* the messages of exchange e that the store holds
BotMessagesOf(e) == {i \in 1..Len(msgs) : msgs[i].ex = e /\ msgs[i].sender = "bot"}

UserMessagesOf(e) == {i \in 1..Len(msgs) : msgs[i].ex = e /\ msgs[i].sender = "user"}

\* how many invocations of a run of withExponentialBackoff failed
BackoffFailures(b) == b.calls - (IF b.last.kind = "ok" THEN 1 ELSE 0)

\* C1: no persisted message has a sessionId whose session is absent from
\* the session store, also when deleteSession runs while an exchange on the
\* session is in flight.
C1_NoOrphanedMessage ==
    faults = 0 => \A i \in 1..Len(msgs) : msgs[i].sid \in SessionIds

\* C2: from an empty store with nothing selected, one observation of the
\* empty state by the sessions listener gives exactly one auto-created
\* session: never two, and one once the creation it started has completed
\* (as long as no session has been deleted).
C2_OneObservationOneSession ==
    emptyObs = 1 =>
        /\ Cardinality(AutoSessions) <= 1
        /\ (NoListenerTimer /\ creating = {} /\ Cardinality(sessions) = nextSid - 1)
               => Cardinality(AutoSessions) = 1

C2_Witness ==
    /\ emptyObs = 1
    /\ NoListenerTimer
    /\ creating = {}
    /\ Cardinality(AutoSessions) = 1
    /\ curSid \in {s.id : s \in AutoSessions}
    /\ ~sessDirty

\* C3: however often the empty state is signalled before a createSession
\* completes, the store never holds more than one auto-created session
\* (stated for the runs in which the user does at most one thing in the
\* sidebar, so that nothing but the listener's signals is behind a second
\* session).
C3_AtMostOneAutoSession ==
    ops <= 1 => Cardinality(AutoSessions) <= 1

\* C4: an exchange whose every completion request got HTTP 500 ends with a
\* persisted bot message containing the error marker, and with its user
\* message persisted, unchanged.
C4_FailureLeavesErrorMessage ==
    \A e \in DOMAIN ex :
        (ex[e].pc = "done" /\ ex[e].all500 /\ faults = 0 /\ ex[e].sid \in SessionIds) =>
            /\ \E i \in BotMessagesOf(e) : Includes(msgs[i].text, ErrorMarker)
            /\ \E i \in UserMessagesOf(e) : msgs[i].text = ex[e].text /\ msgs[i].sid = ex[e].sid

\* C5: the fragments a stream has yielded, concatenated in pull order, are
\* a prefix of the reply text and, once the stream is done, the reply text
\* exactly; no fragment is empty.
C5_FragmentsRebuildReply ==
    (st.pc # "unused" /\ st.s.fetched) =>
        /\ \A i \in 1..Len(st.pulled) : st.pulled[i] # <<>>
        /\ IsPrefix(Flatten(st.pulled), FullResponse(st.api))
        /\ st.pc = "done" => Flatten(st.pulled) = FullResponse(st.api)

C5_Witness ==
    /\ st.pc = "done"
    /\ st.s.fetched
    /\ st.api = <<" ", "a", " ", "\n">>
    /\ st.pulled = << <<" ">>, <<"a">>, <<" ", "\n">> >>

\* C6: while every failure of a run was a 429 and fewer than maxRetries
\* invocations failed, no failure is propagated, and a run that returns
\* after k such failures has made k + 1 invocations and taken k delays.
C6_RetriesThenSuccess ==
    (bk.max > 0 /\ bk.all429 /\ BackoffFailures(bk) < bk.max) =>
        /\ bk.pc # "thrown"
        /\ (bk.pc = "returned" /\ bk.last.kind = "ok") =>
               /\ bk.calls = BackoffFailures(bk) + 1
               /\ bk.delays = BackoffFailures(bk)
               /\ bk.result = OkOutcome

C6_Witness ==
    /\ bk.max = DefaultMaxRetries
    /\ bk.pc = "returned"
    /\ bk.result = OkOutcome
    /\ bk.all429
    /\ bk.calls = 5
    /\ bk.delays = 4

\* C7: a failure with a 4xx status other than 429 is propagated at once,
\* whatever its message: no delay follows it and fn is not invoked again.
C7_NonRetryablePropagates ==
    (bk.last.kind = "http" /\ SpecNonRetryable(bk.last)) => bk.pc = "thrown"

\* C8: a 429, a 5xx or a network failure is not propagated while attempts
\* remain: a delay and another invocation follow.
C8_RetryableIsRetried ==
    (bk.last.kind # "ok" /\ bk.last.kind # "none" /\ SpecRetryable(bk.last)
        /\ bk.calls < bk.max) => bk.pc # "thrown"

\* C9: a run (maxRetries >= 1) all of whose invocations fail with a 429, a
\* 5xx or a network failure ends, after exactly maxRetries invocations and
\* maxRetries - 1 delays, by propagating the last failure.
C9_ExhaustionPropagatesLast ==
    (bk.max >= 1 /\ bk.calls >= 1 /\ bk.last.kind # "ok" /\ bk.allSpecRetryable) =>
        /\ bk.pc # "returned"
        /\ bk.pc = "thrown" =>
               /\ bk.calls = bk.max
               /\ bk.delays = bk.max - 1
               /\ bk.result = bk.last

\* C10: exchanges that overlap do not write into each other's placeholder:
\* the text of every placeholder on display is a prefix of the reply of its
\* own exchange; and every exchange on a selected session whose reply has
\* arrived ends with that reply persisted as its bot message.
C10_OverlappingExchanges ==
    /\ \A i \in 1..Len(view) :
           view[i].id[1] = "p" =>
               IsPrefix(view[i].text, ex[view[i].id[2]].stream.full)
    /\ \A e \in DOMAIN ex :
           (ex[e].pc = "done" /\ ex[e].stream.fetched) =>
               \E i \in BotMessagesOf(e) :
                   /\ msgs[i].text = ex[e].stream.full
                   /\ msgs[i].sid = ex[e].sid

C10_Witness ==
    /\ nEx = 2
    /\ ex[2].overlap
    /\ ex[1].pc = "done"
    /\ ex[2].pc = "done"
    /\ ex[1].stream.full # ex[2].stream.full
    /\ \E i \in BotMessagesOf(1) : msgs[i].text = ex[1].stream.full
    /\ \E j \in BotMessagesOf(2) : msgs[j].text = ex[2].stream.full

\* C11: the busy flag does not block submission: a handleSend issued with a
\* non-empty text on a selected session while a previous exchange is
\* streaming is accepted (and gets a placeholder id of its own).
C11_BusyDoesNotBlock ==
    \A e \in DOMAIN ex :
        (ex[e].overlap /\ Trim(ex[e].text) # <<>> /\ ex[e].sid # 0) =>
            ex[e].pc # "rejected"

\* C12: while an exchange is streaming, a snapshot delivered to the messages
\* listener does not remove the exchange's placeholder from the visible
\* messages, and the placeholder shows the fragments received so far.
C12_SnapshotKeepsPlaceholder ==
    \A e \in DOMAIN ex :
        (ex[e].pc = "stream" /\ ex[e].sid = curSid) =>
            \E i \in 1..Len(view) :
                /\ view[i].id = <<"p", e>>
                /\ view[i].text = ex[e].botText

\* C13: if persisting the user message fails, the exchange stops there: no
\* placeholder is added to the visible messages and no completion request
\* is issued; the failure is in the error state and the busy flag is
\* cleared.
C13_UserSaveFailureStops ==
    \A e \in DOMAIN ex :
        ex[e].userFailed =>
            /\ ex[e].pc = "aborted"
            /\ ~ex[e].stream.fetched
            /\ \A i \in 1..Len(view) : view[i].id # <<"p", e>>
            /\ (nEx = e => error # "" /\ ~isTyping)

\* C14: a handleSend call whose text is empty or whitespace-only after
\* trimming, or that is made while no session is selected, is a no-op: it
\* starts no exchange and leaves the input, the busy flag, the error state,
\* the visible messages and the store as they were.
C14_RejectedSendIsNoOp ==
    [][ (nEx' = nEx + 1 /\ (Trim(ex'[nEx'].text) = <<>> \/ curSid = 0)) =>
            /\ ex'[nEx'].pc = "rejected"
            /\ input' = ex'[nEx'].text
            /\ isTyping' = isTyping
            /\ error' = error
            /\ view' = view
            /\ msgs' = msgs
            /\ sessions' = sessions ]_vars

\* C15: after a successful exchange the text of the persisted bot message
\* is the concatenation, in order, of all the fragments the stream yielded
\* for that exchange.
C15_PersistedTextIsFragments ==
    \A e \in DOMAIN ex :
        (ex[e].pc = "done" /\ ex[e].stream.fetched) =>
            /\ ex[e].stream.idx = Len(ex[e].stream.chunks)
            /\ Cardinality(BotMessagesOf(e)) = 1
            /\ \A i \in BotMessagesOf(e) :
                   msgs[i].text = Flatten(SubSeq(ex[e].stream.chunks, 1, ex[e].stream.idx))

C15_Witness ==
    \E e \in DOMAIN ex :
        /\ ex[e].pc = "done"
        /\ ex[e].stream.fetched
        /\ Len(ex[e].stream.chunks) = 2
        /\ \E i \in BotMessagesOf(e) : msgs[i].text = <<"a", " ">>

\* handleSend call e has returned
Completed(e) == e \in DOMAIN ex /\ ex[e].pc = "done"

\* the store's state that holds the bot message of the completed exchange e
\* has been delivered to the messages listener
Delivered(e) ==
    /\ Completed(e)
    /\ BotMessagesOf(e) # {}
    /\ curSid = ex[e].sid
    /\ ~msgDirty

\* the visible messages hold no placeholder of exchange e and hold its
\* persisted bot message exactly once
ShownOnce(e) ==
    /\ e \in DOMAIN ex
    /\ \A i \in 1..Len(view) : view[i].id # <<"p", e>>
    /\ Cardinality({i \in 1..Len(view) : view[i].id = <<"m", ex[e].botMid>>}) = 1

\* C16: once an exchange has completed and the store's state with its
\* persisted bot message has been delivered, the visible messages hold no
\* placeholder of that exchange and show its bot reply exactly once; and
\* every completed exchange eventually gets there.
C16_PlaceholderReplacedOnce ==
    /\ [](\A e \in ExchangeIds : Delivered(e) => ShownOnce(e))
    /\ \A e \in ExchangeIds : Completed(e) ~> ShownOnce(e)

\* C17: after a delete of session id has succeeded, listing the messages of
\* id returns nothing and id is not in the session list, whatever the
\* number of messages the session held (DELETE /api/chats/:id).
C17_DeleteLeavesNoMessages ==
    [][ (/\ backend'.resp # backend.resp
         /\ backend'.resp.op = "delete"
         /\ backend'.resp.status = 200) =>
            /\ RestMessagesOf(backend', backend'.resp.id) = <<>>
            /\ \A i \in 1..Len(RestChatList(backend')) :
                   RestChatList(backend')[i] # backend'.resp.id ]_vars

\* C18: deleting a session that does not exist (or the same id a second
\* time) is a success that changes nothing: the delete reports no error to
\* its caller and the client raises no error state.
C18_DeleteIsIdempotent ==
    (backend.resp.op = "delete" /\ ~backend.resp.existed) =>
        /\ backend.resp.status = 200
        /\ backend.err = ""

\* C19: appending a message with a session id that references no existing
\* session fails with a persistence error and persists nothing.
C19_AppendNeedsSession ==
    /\ \A i \in 1..Len(backend.messages) : ~backend.messages[i].orphan
    /\ (backend.resp.op = "post" /\ ~backend.resp.existed) => backend.resp.status # 200

\* C20: after the last remaining session has been deleted exactly one new
\* session is created automatically (the delete handler's creation and the
\* listener's creation for the empty list give one session together, not
\* two), and it becomes the selected session.  The only sidebar action of
\* the run is that deletion, and the listener has seen the empty list once
\* at the start and once after the deletion.
C20_DeleteLastCreatesOne ==
    (ops = 1 /\ Cardinality(sessions) < nextSid - 1 /\ emptyObs <= 2) =>
        Cardinality(sessions) <= 1

\* C21: when the selected session is missing from a freshly delivered
\* session list (it was deleted by another client), the listener selects
\* the first session of the new list if there is one and arms the automatic
\* creation if there is none; the selection does not stay on the vanished
\* session.
C21_VanishedSelectionFallsBack ==
    [][ (/\ sessList' # sessList
         /\ curSid \in ListIds(sessList)
         /\ curSid \notin ListIds(sessList')) =>
            IF Len(sessList') > 0
            THEN curSid' = sessList'[1].id
            ELSE \E l \in 0..MaxSessions : timers'["listener", l] > timers["listener", l] ]_vars

PlaceholdersOf(e) == {i \in 1..Len(view) : view[i].id = <<"p", e>>}

\* C23: once another session than the one of an exchange is selected and its
\* messages have been delivered, the visible list holds neither the
\* placeholder of that exchange nor, in it, any of its fragments
C23_SwitchHidesExchange ==
    \A e \in 1..nEx :
        (/\ ex[e].sid # 0
         /\ curSid # 0
         /\ curSid # ex[e].sid
         /\ curSid \in ListIds(sessList)
         /\ ~msgDirty) => PlaceholdersOf(e) = {}

\* C24: when the reply came and the insert of the bot message failed, the
\* REST surface answers the exchange with a non-success status
C24_BotWriteFailureVisible ==
    [][ (/\ backend.posting # <<>>
         /\ backend'.posting = <<>>
         /\ backend'.resp.text # RestTechnicalError
         /\ backend'.messages = backend.messages) =>
            backend'.resp.status # 200 ]_vars

\* C25: whatever fails during an exchange, the busy flag is eventually
\* cleared, and with it a send of a non-empty text on the selected session
\* is accepted again
C25_BusyEventuallyCleared ==
    isTyping ~> (~isTyping /\ SendAccepted(variant, <<"h", "i">>, isTyping, curSid))

\* C26: a consumer that has driven a stream whose fetch failed to its
\* completion has received exactly one fragment, the error text; and once
\* the fetch has succeeded no result of the stream is an error result
C26_FailureIsOneFragment ==
    /\ (st.pc = "done" /\ st.failed /\ ~st.s.fetched) =>
           /\ Len(st.pulled) = 1
           /\ StartsWith(st.pulled[1], ErrorMarker)
    /\ (st.pc # "unused" /\ st.s.fetched) =>
           ~(st.last.hasValue /\ StartsWith(st.last.value, ErrorMarker))

\* C27: a pull on a stream that has signalled completion signals completion
\* again, hands over no fragment and makes no request (a pull makes a
\* request exactly when it finds that nothing was fetched)
C27_NonRestartable ==
    [][ (st.pc = "done" /\ st' # st) =>
            /\ st.s.fetched
            /\ st'.pc = "done"
            /\ st'.last.done
            /\ st'.pulled = st.pulled ]_vars

\* a was created later than b: by the store's timestamps, and a write whose
\* timestamp is still to come is later than every committed one and than
\* the client's earlier writes
FeedLater(a, b) ==
    \/ ~a.pending /\ ~b.pending /\ a.ts > b.ts
    \/ a.pending /\ ~b.pending
    \/ a.pending /\ b.pending /\ a.seq > b.seq

\* C28: in every list of messages handed to the client no message stands
\* before one that was created earlier, also while a message has no server
\* timestamp yet and when timestamps are equal
C28_ListedInCreationOrder ==
    \A i, j \in 1..Len(feed.shown) :
        i < j => ~FeedLater(feed.shown[i], feed.shown[j])

\* exchange e is the only one its session has had
FirstExchange(e) ==
    \A p \in 1..nEx : (p # e /\ ex[p].sid = ex[e].sid) => ex[p].pc = "rejected"

\* C29: an exchange that is its session's first, on a session whose title
\* is the one createSession gave it, ends with the title overwritten by the
\* title derived from the user's text
C29_FirstExchangeSetsTitle ==
    \A e \in 1..nEx :
        (/\ ex[e].pc = "done"
         /\ FirstExchange(e)
         /\ ex[e].sid \in SessionIds) =>
            SessionOf(ex[e].sid).title = DerivedTitle(variant, ex[e].text)

\* C30: the derived title is a prefix of the user's text, followed by an
\* ellipsis only if that prefix is not the whole text
C30_TitleIsPrefix ==
    derived.pc = "done" =>
        \E k \in 0..Len(derived.text) :
            \/ derived.title = SubSeq(derived.text, 1, k)
            \/ k < Len(derived.text) /\ derived.title = SubSeq(derived.text, 1, k) \o Ellipsis

\* C31: an exchange whose user message is persisted and whose reply came
\* ends with exactly one persisted bot message, whichever write was
\* rejected on the way
C31_OneBotMessagePerExchange ==
    \A e \in 1..nEx :
        (/\ ex[e].pc \in {"done", "crashed"}
         /\ ex[e].stream.fetched
         /\ UserMessagesOf(e) # {}) =>
            Cardinality(BotMessagesOf(e)) = 1

\* C32: every message in the store has a non-empty text
C32_NoEmptyPersistedText ==
    \A i \in 1..Len(msgs) : msgs[i].text # <<>>

\* ---------------------------------------------------------------------
\* A long conversation: one more exchange in a session of src/src/App.jsx
\* that already holds up to WindowMaxMsgs persisted messages, listed by
\* query(messagesRef, orderBy('createdAt', 'asc'), limit(50))

WindowMaxMsgs == 51

\* the messages earlier exchanges have written, user and bot in turn
StoredTurns(k) ==
    [i \in 1..k |-> [id |-> i, sid |-> 1,
                     sender |-> IF i % 2 = 1 THEN "user" ELSE "bot",
                     text |-> IF i % 2 = 1 THEN <<"h", "i">> ELSE <<"b">>,
                     ex |-> 0]]

InitWindow ==
    /\ backend = RestUnused
    /\ feed = FeedUnused
    /\ derived = TitleUnused
    /\ AuxIdle
    /\ variant = "app"
    /\ lim = [ops |-> 0, sends |-> 1, faults |-> 0]
    /\ ex = [e \in 1..lim.sends |-> IdleExchange]
    /\ sessions = {[id |-> 1, title |-> NewSessionTitle(variant, TRUE, 0),
                    auto |-> TRUE, listed |-> TRUE]}
    /\ \E k \in 0..WindowMaxMsgs :
          /\ msgs = StoredTurns(k)
          /\ nextMid = k + 1
    /\ nextSid = 2
    /\ sessList = SessionsQuery
    /\ curSid = 1
    /\ view = MessagesQuery(variant, curSid)
    /\ input = <<>>
    /\ isTyping = FALSE
    /\ error = ""
    /\ sessDirty = FALSE
    /\ msgDirty = FALSE
    /\ timers = [k \in TimerKinds, l \in 0..MaxSessions |-> 0]
    /\ creating = {}
    /\ deleting = {}
    /\ nEx = 0
    /\ faults = 0
    /\ emptyObs = 1
    /\ ops = 0

NextWindow ==
    \/ MessagesSnapshot
    \/ \E t \in Inputs : SendRejected(t)
    \/ \E t \in Inputs : Send(t)
    \/ \E e \in ExchangeIds : UserSaveAck(e)
    \/ \E e \in ExchangeIds, script \in FetchScripts : FirstNext(e, script)
    \/ \E e \in ExchangeIds : StreamChunk(e)
    \/ \E e \in ExchangeIds : BotSaveAck(e)
    \/ \E e \in ExchangeIds : TitleAck(e)

SpecWindow == InitWindow /\ [][NextWindow]_vars

\* the n most recent messages of a session, oldest first
RecentWindow(v, sid) ==
    LET mine == SelectSeq(msgs, LAMBDA m : m.sid = sid)
        n    == IF Len(mine) < MessagesLimit(v) THEN Len(mine) ELSE MessagesLimit(v)
        from == Len(mine) - n
    IN  [i \in 1..n |-> [id |-> <<"m", mine[from + i].id>>,
                         sender |-> mine[from + i].sender,
                         text |-> mine[from + i].text]]

\* C33: a refresh of the message list shows at most `limit` messages in
\* creation order, and of a longer session the `limit` most recent ones
C33_RefreshShowsMostRecent ==
    [][MessagesSnapshot => view' = RecentWindow(variant, curSid)']_vars

\* C34: the request to the completion service holds the prior turns in
\* order and then the new user turn, once
C34_UserTurnOnce ==
    [][ \A text \in RestBotTexts :
            RestBotReply(text) =>
                backend'.asked = RestAskTurns(backend.posting[1].hist,
                                              backend.posting[1].content) ]_vars

\* C35: a request whose handler met the missing API key is answered with
\* an error; no accepted request is left without an answer
C35_MissingKeyAnswered ==
    \A i \in 1..Len(backend.posting) : ~backend.posting[i].failed

\* C36: the pull that signals completion after the last fragment carries
\* the full reply text, the concatenation of the fragments yielded before
C36_DoneCarriesFullText ==
    (/\ st.pc = "done"
     /\ st.s.fetched) =>
        /\ st.last.done
        /\ st.last.hasValue
        /\ st.last.value = st.s.full
        /\ st.last.value = Flatten(st.pulled)

\* C37: the bot message of an exchange is persisted into the session that
\* holds the exchange's user message, whatever session is selected when
\* the stream ends
C37_BotInSessionOfUser ==
    \A e \in 1..nEx :
        \A i \in BotMessagesOf(e) :
            /\ msgs[i].sid = ex[e].sid
            /\ \A j \in UserMessagesOf(e) : msgs[j].sid = msgs[i].sid

\* ---------------------------------------------------------------------
\* One exchange while the user switches between two sessions and creates
\* or deletes sessions, SelectOps times

SelectOps == 1

InitSelect ==
    /\ backend = RestUnused
    /\ feed = FeedUnused
    /\ derived = TitleUnused
    /\ AuxIdle
    /\ variant \in Variants
    /\ lim = [ops |-> SelectOps, sends |-> 1, faults |-> 0]
    /\ ex = [e \in 1..lim.sends |-> IdleExchange]
    /\ StartedTwo

NextSelect ==
    \/ SessionsSnapshot
    \/ MessagesSnapshot
    \/ CreateClick
    \/ \E s \in 1..MaxSessions : CreateAck(s)
    \/ \E s \in 1..MaxSessions : SwitchSession(s)
    \/ \E s \in 1..MaxSessions : DeleteStart(s)
    \/ \E s \in 1..MaxSessions : DeleteCommit(s)
    \/ \E s \in 1..MaxSessions : DeleteAck(s)
    \/ \E t \in Inputs : SendRejected(t)
    \/ \E t \in Inputs : Send(t)
    \/ \E e \in ExchangeIds : UserSaveAck(e)
    \/ \E e \in ExchangeIds, script \in FetchScripts : FirstNext(e, script)
    \/ \E e \in ExchangeIds : StreamChunk(e)
    \/ \E e \in ExchangeIds : BotSaveAck(e)
    \/ \E e \in ExchangeIds : TitleAck(e)

SpecSelect == InitSelect /\ [][NextSelect]_vars

\* an exchange whose two messages are persisted while another session is
\* selected
C37_Witness ==
    \E e \in 1..nEx :
        /\ BotMessagesOf(e) # {}
        /\ UserMessagesOf(e) # {}
        /\ curSid # ex[e].sid

\* C38: the busy flag is set in every state in which an exchange is in
\* flight, between its acceptance and the end of its stream
C38_BusyWhileInFlight ==
    \A e \in 1..nEx :
        ex[e].pc \in {"saveUser", "fetch", "stream"} => isTyping

\* C39: deleting a session other than the selected one leaves the selected
\* session id (and with it the visible messages) as it was
C39_DeleteOtherKeepsSelection ==
    [][ \A id \in 1..RestMaxChats :
            (/\ RestDeleteSession(id)
             /\ backend.cur # 0
             /\ backend.cur # id) =>
                backend'.cur = backend.cur ]_vars

\* C40: every prior turn of the history an exchange sends to the completion
\* service is a persisted message of its session, never the placeholder of
\* an exchange still in flight
C40_HistoryOnlyPersisted ==
    \A e \in 1..nEx :
        \A i \in 1..(Len(ex[e].hist) - 1) :
            \E j \in 1..Len(msgs) :
                /\ msgs[j].sid = ex[e].sid
                /\ msgs[j].text = ex[e].hist[i].text
                /\ Role(msgs[j].sender) = ex[e].hist[i].role

=============================================================================
